---- MODULE Spec2Model ----
(***************************************************************************)
(* Paper2Slides direct-ingestion core: the LaTeX and Markdown parsers, the *)
(* archive handler and the ingestor of src/api/ingestor, and the OAuth     *)
(* manager of src/api/oauth.py.  Texts are                                 *)
(* sequences of one-character strings, so that the scanners and the       *)
(* regular-expression passes of the source are modelled character by      *)
(* character.  Indices of the source are 0-based; a sequence position p   *)
(* here is the source index p - 1.                                        *)
(***************************************************************************)
EXTENDS Integers, Sequences, FiniteSets, TLC

VARIABLES
    pc,          \* position of the call under study: "start", "done", ...
    br_text,     \* _extract_braced: argument text
    br_start,    \* _extract_braced: argument start (0-based)
    br_out,      \* _extract_braced: returned string
    sc_text,     \* _strip_commands: argument text
    sc_out,      \* _strip_commands: returned string
    inc_files,   \* _inline_includes: the .tex files of base_dir (name -> content)
    inc_stack,   \* _inline_includes: the active calls, outermost first
    inc_out,     \* _inline_includes: text returned by the outermost call
    cl_heading,  \* _classify_section: argument heading
    cl_md,       \* category returned by md_parser._classify_section
    cl_tex,      \* category returned by tex_parser._classify_section
    tex_raw,     \* parse_latex: the include-resolved text raw
    tex_result,  \* parse_latex: the returned dict
    md_text,     \* parse_markdown: the text read from path
    md_result,   \* parse_markdown: the returned dict
    zip_archive, \* extract_and_find_main: the archive at zip_path
    zip_out,     \* extract_and_find_main: the returned path or the exception
    in_file,     \* ingest_document: the file at file_path
    in_parsed,   \* ingest_document: the dict parsed
    in_written,  \* ingest_document: the files written by the call, in order
    in_out,      \* ingest_document: the returned rag_data or the exception
    eq_list,     \* _summarise_equations: argument equations
    eq_out,      \* _summarise_equations: returned string
    oa_mgr,      \* OAuthManager: the fields of the singleton oauth_manager
    oa_now,      \* OAuthManager: time.time(), in seconds
    oa_calls,    \* OAuthManager: the calls awaiting their HTTP response
    oa_ret,      \* OAuthManager: what the last get_token call returned
    oa_cleared   \* history: logout has run and no exchange_code started after it succeeded

braced_vars == <<br_text, br_start, br_out>>
strip_vars == <<sc_text, sc_out>>
inc_vars == <<inc_files, inc_stack, inc_out>>
classify_vars == <<cl_heading, cl_md, cl_tex>>
latex_vars == <<tex_raw, tex_result>>
markdown_vars == <<md_text, md_result>>
zip_vars == <<zip_archive, zip_out>>
ingest_vars == <<in_file, in_parsed, in_written, in_out>>
summary_vars == <<eq_list, eq_out>>
oauth_vars == <<oa_mgr, oa_now, oa_calls, oa_ret, oa_cleared>>
vars ==
    <<pc, braced_vars, strip_vars, inc_vars, classify_vars, latex_vars,
      markdown_vars, zip_vars, ingest_vars, summary_vars, oauth_vars>>
\* the variables a specification leaves alone
not_braced ==
    <<strip_vars, inc_vars, classify_vars, latex_vars,
      markdown_vars, zip_vars, ingest_vars, summary_vars, oauth_vars>>
not_strip ==
    <<braced_vars, inc_vars, classify_vars, latex_vars,
      markdown_vars, zip_vars, ingest_vars, summary_vars, oauth_vars>>
not_inc ==
    <<braced_vars, strip_vars, classify_vars, latex_vars,
      markdown_vars, zip_vars, ingest_vars, summary_vars, oauth_vars>>
not_classify ==
    <<braced_vars, strip_vars, inc_vars, latex_vars,
      markdown_vars, zip_vars, ingest_vars, summary_vars, oauth_vars>>
not_latex ==
    <<braced_vars, strip_vars, inc_vars, classify_vars,
      markdown_vars, zip_vars, ingest_vars, summary_vars, oauth_vars>>
not_markdown ==
    <<braced_vars, strip_vars, inc_vars, classify_vars,
      latex_vars, zip_vars, ingest_vars, summary_vars, oauth_vars>>
not_zip ==
    <<braced_vars, strip_vars, inc_vars, classify_vars,
      latex_vars, markdown_vars, ingest_vars, summary_vars, oauth_vars>>
not_ingest ==
    <<braced_vars, strip_vars, inc_vars, classify_vars,
      latex_vars, markdown_vars, zip_vars, summary_vars, oauth_vars>>
not_summary ==
    <<braced_vars, strip_vars, inc_vars, classify_vars,
      latex_vars, markdown_vars, zip_vars, ingest_vars, oauth_vars>>
not_oauth ==
    <<braced_vars, strip_vars, inc_vars, classify_vars, latex_vars,
      markdown_vars, zip_vars, ingest_vars, summary_vars>>

None == <<"None">>

\* The variables of the calls a specification does not make stay None.
IdleBraced == br_text = None /\ br_start = None /\ br_out = None
IdleStrip == sc_text = None /\ sc_out = None
IdleInc == inc_files = None /\ inc_stack = None /\ inc_out = None
IdleClassify == cl_heading = None /\ cl_md = None /\ cl_tex = None
IdleLatex == tex_raw = None /\ tex_result = None
IdleMarkdown == md_text = None /\ md_result = None
IdleZip == zip_archive = None /\ zip_out = None
IdleIngest == in_file = None /\ in_parsed = None /\ in_written = None /\ in_out = None
IdleSummary == eq_list = None /\ eq_out = None
IdleOAuth ==
    /\ oa_mgr = None /\ oa_now = None /\ oa_calls = None /\ oa_ret = None
    /\ oa_cleared = None
OthersIdle(used) ==
    /\ IF "braced" \in used THEN TRUE ELSE IdleBraced
    /\ IF "strip" \in used THEN TRUE ELSE IdleStrip
    /\ IF "inc" \in used THEN TRUE ELSE IdleInc
    /\ IF "classify" \in used THEN TRUE ELSE IdleClassify
    /\ IF "latex" \in used THEN TRUE ELSE IdleLatex
    /\ IF "markdown" \in used THEN TRUE ELSE IdleMarkdown
    /\ IF "zip" \in used THEN TRUE ELSE IdleZip
    /\ IF "ingest" \in used THEN TRUE ELSE IdleIngest
    /\ IF "summary" \in used THEN TRUE ELSE IdleSummary
    /\ IF "oauth" \in used THEN TRUE ELSE IdleOAuth

(***************************************************************************)
(* Generic helpers on character sequences                                  *)
(***************************************************************************)
\* All sequences over S of length 0..n
RECURSIVE SeqsUpTo(_, _)
SeqsUpTo(S, n) ==
    IF n = 0 THEN {<<>>}
    ELSE LET shorter == SeqsUpTo(S, n - 1)
         IN  shorter \cup {Append(s, c) : s \in {t \in shorter : Len(t) = n - 1}, c \in S}

(***************************************************************************)
(* _extract_braced (tex_parser.py 34-57)                                   *)
(***************************************************************************)
\* the while loop of lines 43-56 followed by the return of line 57;
\* i is the 1-based position of text[i] of the source
RECURSIVE extract_braced_loop(_, _, _, _)
extract_braced_loop(text, i, depth, buf) ==
    IF i > Len(text) THEN buf
    ELSE LET ch == text[i] IN
         IF ch = "{"
         THEN extract_braced_loop(text, i + 1, depth + 1,
                                  IF depth > 0 THEN Append(buf, ch) ELSE buf)
         ELSE IF ch = "}"
         THEN IF depth - 1 = 0
              THEN buf
              ELSE extract_braced_loop(text, i + 1, depth - 1, Append(buf, ch))
         ELSE extract_braced_loop(text, i + 1, depth,
                                  IF depth > 0 THEN Append(buf, ch) ELSE buf)

extract_braced(text, start) == extract_braced_loop(text, start + 1, 0, <<>>)

\* Inputs of the brace scanner
MaxBracedLen == 5
BracedAlphabet == {"{", "}", "a"}
\* \cmd{a{b}c}
CmdExample == <<"\\", "c", "m", "d", "{", "a", "{", "b", "}", "c", "}">>
BracedTexts == SeqsUpTo(BracedAlphabet, MaxBracedLen) \cup {CmdExample}

InitBraced ==
    /\ pc = "start"
    /\ br_text \in BracedTexts
    /\ br_start \in 0..Len(br_text)
    /\ br_out = None
    /\ OthersIdle({"braced"})

CallExtractBraced ==
    /\ pc = "start"
    /\ br_out' = extract_braced(br_text, br_start)
    /\ pc' = "done"
    /\ UNCHANGED <<br_text, br_start, not_braced>>

SpecBraced == InitBraced /\ [][CallExtractBraced]_vars

\* ---- what the claims say about the brace scanner ----
\* position of the first "{" at or after the 0-based index start, 0 if none
FirstOpen(text, start) ==
    LET opens == {p \in (start + 1)..Len(text) : text[p] = "{"}
    IN  IF opens = {} THEN 0 ELSE CHOOSE p \in opens : \A q \in opens : p <= q

\* number of "{" minus number of "}" in text[from..to]
RECURSIVE Balance(_, _, _)
Balance(text, from, to) ==
    IF from > to THEN 0
    ELSE Balance(text, from, to - 1)
         + (IF text[to] = "{" THEN 1 ELSE IF text[to] = "}" THEN -1 ELSE 0)

\* position of the "}" matching the "{" at position open, 0 if it is never closed
MatchingClose(text, open) ==
    LET closes == {p \in (open + 1)..Len(text) : Balance(text, open, p) = 0}
    IN  IF closes = {} THEN 0 ELSE CHOOSE p \in closes : \A q \in closes : p <= q

HasBalancedGroup(text, start) ==
    /\ FirstOpen(text, start) # 0
    /\ MatchingClose(text, FirstOpen(text, start)) # 0

\* C2: whenever the first "{" at or after start opens a balanced group,
\* _extract_braced returns exactly the characters strictly between that "{"
\* and its matching "}".
C2_BalancedGroupContent ==
    (pc = "done" /\ HasBalancedGroup(br_text, br_start)) =>
        LET open == FirstOpen(br_text, br_start)
        IN  br_out = SubSeq(br_text, open + 1, MatchingClose(br_text, open) - 1)

\* C3: whenever no balanced group is completed before the end of the text,
\* _extract_braced returns the empty string.
C3_UnbalancedGivesEmpty ==
    (pc = "done" /\ ~HasBalancedGroup(br_text, br_start)) => br_out = <<>>

(***************************************************************************)
(* _strip_commands (tex_parser.py 60-92)                                   *)
(***************************************************************************)
LowerLetters ==
    {"a", "b", "c", "d", "e", "f", "g", "h", "i", "j", "k", "l", "m",
     "n", "o", "p", "q", "r", "s", "t", "u", "v", "w", "x", "y", "z"}
UpperLetters ==
    {"A", "B", "C", "D", "E", "F", "G", "H", "I", "J", "K", "L", "M",
     "N", "O", "P", "Q", "R", "S", "T", "U", "V", "W", "X", "Y", "Z"}
Letters == LowerLetters \cup UpperLetters
\* [a-zA-Z@]
CommandChars == Letters \cup {"@"}
\* \s on the characters of the model
Whitespace == {" ", "\t", "\n", "\r", "\f"}
\* [ \t]
Blanks == {" ", "\t"}

\* first position >= from whose character is not in S (Len(text) + 1 if none)
RECURSIVE RunEnd(_, _, _)
RunEnd(text, from, S) ==
    IF from > Len(text) \/ text[from] \notin S THEN from
    ELSE RunEnd(text, from + 1, S)

\* first position >= from whose character is in S (Len(text) + 1 if none)
RECURSIVE FindFirst(_, _, _)
FindFirst(text, from, S) ==
    IF from > Len(text) \/ text[from] \in S THEN from
    ELSE FindFirst(text, from + 1, S)

\* re.sub scans from left to right: the first position >= from at which the
\* pattern matches (Len(text) + 1 if none)
NextMatch(text, from, Matches(_)) ==
    LET hits == {p \in from..Len(text) : Matches(p)}
    IN  IF hits = {} THEN Len(text) + 1 ELSE CHOOSE p \in hits : \A q \in hits : p <= q

\* line 72: re.sub(r"(?m)%.*$", "", text), from position i on
RECURSIVE strip_comments(_, _)
strip_comments(text, i) ==
    LET p == NextMatch(text, i, LAMBDA q : text[q] = "%")
    IN  IF i > Len(text) THEN <<>>
        ELSE IF p > Len(text) THEN SubSeq(text, i, Len(text))
        ELSE SubSeq(text, i, p - 1) \o strip_comments(text, FindFirst(text, p, {"\n"}))

\* the command names of the pattern of line 75
FormattingNames ==
    {<<"t","e","x","t","b","f">>, <<"t","e","x","t","i","t">>,
     <<"t","e","x","t","t","t">>, <<"e","m","p","h">>,
     <<"u","n","d","e","r","l","i","n","e">>, <<"t","e","x","t","s","c">>,
     <<"t","e","x","t","r","m">>, <<"t","e","x","t","s","f">>,
     <<"t","e","x","t","s","l">>, <<"m","b","o","x">>, <<"h","b","o","x">>,
     <<"v","b","o","x">>, <<"t","e","x","t">>, <<"m","a","t","h","r","m">>,
     <<"m","a","t","h","b","f">>, <<"m","a","t","h","i","t">>,
     <<"m","a","t","h","s","f">>, <<"m","a","t","h","t","t">>,
     <<"m","a","t","h","b","b">>, <<"m","a","t","h","c","a","l">>,
     <<"m","a","t","h","f","r","a","k">>}

\* A match of \\NAME\{([^{}]*)\} at position p: <<position after the match,
\* group 1>>, or <<0>> when the pattern does not match at p.  formatting
\* selects the pattern of line 75 (NAME one of FormattingNames) against the
\* pattern of line 81 (NAME is [a-zA-Z@]+).
MatchBracedCommand(text, p, formatting) ==
    IF text[p] # "\\" THEN <<0>>
    ELSE LET q == RunEnd(text, p + 1, CommandChars)      \* the "{" must be here
             r == FindFirst(text, q + 1, {"{", "}"})     \* end of [^{}]*
             name == SubSeq(text, p + 1, q - 1)
         IN  IF /\ q > p + 1
                /\ q <= Len(text) /\ text[q] = "{"
                /\ r <= Len(text) /\ text[r] = "}"
                /\ (formatting => name \in FormattingNames)
             THEN <<r + 1, SubSeq(text, q + 1, r - 1)>>
             ELSE <<0>>

\* one re.sub(pattern, r"\1", text) of lines 77 and 81, from position i on
RECURSIVE unwrap_pass(_, _, _)
unwrap_pass(text, i, formatting) ==
    LET p == NextMatch(text, i, LAMBDA q : MatchBracedCommand(text, q, formatting)[1] # 0)
        m == MatchBracedCommand(text, p, formatting)
    IN  IF i > Len(text) THEN <<>>
        ELSE IF p > Len(text) THEN SubSeq(text, i, Len(text))
        ELSE SubSeq(text, i, p - 1) \o m[2] \o unwrap_pass(text, m[1], formatting)

\* for _ in range(n): text = re.sub(...)
RECURSIVE unwrap_passes(_, _, _)
unwrap_passes(text, n, formatting) ==
    IF n = 0 \/ text = <<>> THEN text
    ELSE unwrap_passes(unwrap_pass(text, 1, formatting), n - 1, formatting)

\* end of (?:\[[^\]]*\])* started at position q
RECURSIVE OptionsEnd(_, _)
OptionsEnd(text, q) ==
    IF q <= Len(text) /\ text[q] = "["
    THEN LET close == FindFirst(text, q + 1, {"]"})
         IN  IF close <= Len(text) THEN OptionsEnd(text, close + 1) ELSE q
    ELSE q

\* A match of \\[a-zA-Z@]+\*?(?:\[[^\]]*\])*\s* at position p: the position
\* after the match, or 0
MatchBareCommand(text, p) ==
    IF text[p] # "\\" THEN 0
    ELSE LET q == RunEnd(text, p + 1, CommandChars)
             star == IF q <= Len(text) /\ text[q] = "*" THEN q + 1 ELSE q
         IN  IF q > p + 1
             THEN RunEnd(text, OptionsEnd(text, star), Whitespace)
             ELSE 0

\* line 84: re.sub(r"\\[a-zA-Z@]+\*?(?:\[[^\]]*\])*\s*", "", text)
RECURSIVE strip_bare(_, _)
strip_bare(text, i) ==
    LET p == NextMatch(text, i, LAMBDA q : MatchBareCommand(text, q) # 0)
    IN  IF i > Len(text) THEN <<>>
        ELSE IF p > Len(text) THEN SubSeq(text, i, Len(text))
        ELSE SubSeq(text, i, p - 1) \o strip_bare(text, MatchBareCommand(text, p))

\* line 87: text.replace("{", "").replace("}", "")
strip_braces(text) == SelectSeq(text, LAMBDA c : c \notin {"{", "}"})

\* a run of the characters of S of at least min characters becomes repl
RECURSIVE collapse_runs(_, _, _, _, _)
collapse_runs(text, i, S, min, repl) ==
    LET p == NextMatch(text, i, LAMBDA q : RunEnd(text, q, S) - q >= min)
    IN  IF i > Len(text) THEN <<>>
        ELSE IF p > Len(text) THEN SubSeq(text, i, Len(text))
        ELSE SubSeq(text, i, p - 1) \o repl \o collapse_runs(text, RunEnd(text, p, S), S, min, repl)

\* str.strip()
str_strip(text) ==
    LET first == RunEnd(text, 1, Whitespace)
        inner == {p \in 1..Len(text) : text[p] \notin Whitespace}
    IN  IF inner = {} THEN <<>>
        ELSE SubSeq(text, first, CHOOSE p \in inner : \A q \in inner : q <= p)

\* range(5) of lines 76 and 80
UnwrapPasses == 5

strip_commands(text) ==
    LET t1 == strip_comments(text, 1)
        t2 == unwrap_passes(t1, UnwrapPasses, TRUE)
        t3 == unwrap_passes(t2, UnwrapPasses, FALSE)
        t4 == strip_bare(t3, 1)
        t5 == strip_braces(t4)
        t6 == collapse_runs(t5, 1, {"\n"}, 3, <<"\n", "\n">>)
        t7 == collapse_runs(t6, 1, Blanks, 1, <<" ">>)
        steps == <<t1, t2, t3, t4, t5, t6, t7>>          \* one after the other
    IN  str_strip(steps[7])

\* Inputs of the normalizer: every text of at most MaxStripLen characters
\* of StripAlphabet, and a few longer LaTeX fragments
MaxStripLen == 4
StripAlphabet == {"\\", "a", "{", "}", " ", "\n", "%"}
\* the fragments are \emph{a}, \b{\emph{a}}, \a*[b] c and a\n\n\n\tb
StripTexts ==
    SeqsUpTo(StripAlphabet, MaxStripLen)
        \cup {<<"\\", "e", "m", "p", "h", "{", "a", "}">>,
              <<"\\", "b", "{", "\\", "e", "m", "p", "h", "{", "a", "}", "}">>,
              <<"\\", "a", "*", "[", "b", "]", " ", "c">>,
              <<"a", "\n", "\n", "\n", "\t", "b">>}

InitStrip ==
    /\ pc = "start"
    /\ sc_text \in StripTexts
    /\ sc_out = None
    /\ OthersIdle({"strip"})

CallStripCommands ==
    /\ pc = "start"
    /\ sc_text # None
    /\ sc_out' = strip_commands(sc_text)
    /\ pc' = "done"
    /\ UNCHANGED <<sc_text, not_strip>>

SpecStrip == InitStrip /\ [][CallStripCommands]_vars

\* ---- what the claims say about the normalizer ----
\* C4: _strip_commands is idempotent: applying it to its own output changes
\* nothing.
C4_StripIdempotent ==
    pc = "done" => strip_commands(sc_out) = sc_out

\* raw command syntax: a brace, or a backslash immediately followed by a letter
HasMarkup(text) ==
    \E p \in 1..Len(text) :
        \/ text[p] \in {"{", "}"}
        \/ text[p] = "\\" /\ p < Len(text) /\ text[p + 1] \in Letters

\* C5: the output of _strip_commands contains no "{", no "}" and no backslash
\* immediately followed by a letter.
C5_OutputMarkupFree ==
    pc = "done" => ~HasMarkup(sc_out)

(***************************************************************************)
(* _inline_includes (tex_parser.py 95-119)                                 *)
(*                                                                         *)
(* A text is a sequence of items: <<"x">> is a character outside every     *)
(* directive, <<"input", name, prefixed>> is one match of the pattern of   *)
(* line 119, \input{name} or \include{name}, the reference written with a  *)
(* directory prefix (\input{p/name}) when prefixed.  base_dir holds the    *)
(* files of inc_files and no sub-directory, so the path of line 107 exists *)
(* only for an unprefixed reference and the path of line 112 is the file   *)
(* of that name in base_dir.  Each call of the recursion is a frame.       *)
(***************************************************************************)
\* line 100: the default depth is 0 and a call returns its text when depth > 5
DepthLimit == 5

FileNames == {"a", "b"}
\* the file parse_latex reads (line 213)
MainFile == "a"

IsDirective(item) == item[1] = "input"

\* the depth test of line 100 left out
depth_never_exceeded(depth) == FALSE

\* line 100: if depth > 5
depth_exceeded(depth) == depth > DepthLimit

\* lines 107-108 and 112-113: one of the two paths tried exists
resolves(files, item) ==
    LET name == item[2]
        prefixed == item[3]
    IN  \/ ~prefixed /\ name \in DOMAIN files     \* base_dir / ref
        \/ name \in DOMAIN files                  \* base_dir / Path(ref).name

\* lines 109 and 114: the text of the file the reference resolves to
resolve(files, item) == files[item[2]]

\* a call _inline_includes(text, base_dir, depth) that has scanned text[1..pos-1]
\* and built acc from it
Frame(text, depth) == [text |-> text, pos |-> 1, depth |-> depth, acc |-> <<>>]

Top == inc_stack[Len(inc_stack)]
Callers == SubSeq(inc_stack, 1, Len(inc_stack) - 1)

\* the value ret replaces the directive the caller is at (re.sub), or is the
\* result of the outermost call
ReturnValue(ret) ==
    IF Len(inc_stack) = 1
    THEN /\ inc_out' = ret
         /\ inc_stack' = <<>>
         /\ pc' = "done"
    ELSE LET caller == inc_stack[Len(inc_stack) - 1]
         IN  /\ inc_stack' = Append(SubSeq(inc_stack, 1, Len(inc_stack) - 2),
                                    [caller EXCEPT !.pos = @ + 1, !.acc = @ \o ret])
             /\ UNCHANGED <<inc_out, pc>>

\* Inputs: the number of items of a file, and of directives among them
MaxIncItems == 2
MaxIncDirectives == 1
\* the interpreter's limit on nested calls, scaled to the model
MaxCallDepth == 8

IncItems == {<<"x">>} \cup {<<"input", n, FALSE>> : n \in FileNames}
\* and \input{p/b}, alone and followed by a character
IncTexts ==
    {t \in SeqsUpTo(IncItems, MaxIncItems) :
        Cardinality({p \in 1..Len(t) : IsDirective(t[p])}) <= MaxIncDirectives}
        \cup {<<<<"input", "b", TRUE>>>>, <<<<"input", "b", TRUE>>, <<"x">>>>}

InitInc ==
    /\ pc = "running"
    /\ \E present \in SUBSET FileNames :
           /\ MainFile \in present
           /\ inc_files \in [present -> IncTexts]
    /\ inc_stack = <<Frame(inc_files[MainFile], 0)>>        \* line 216
    /\ inc_out = <<>>
    /\ OthersIdle({"inc"})

\* lines 100-101
IncDepthCap ==
    /\ pc = "running"
    /\ depth_exceeded(Top.depth)
    /\ ReturnValue(Top.text)
    /\ UNCHANGED <<inc_files, not_inc>>

\* line 119: a character the pattern does not match is copied
IncCopy ==
    /\ pc = "running"
    /\ ~depth_exceeded(Top.depth)
    /\ Top.pos <= Len(Top.text)
    /\ ~IsDirective(Top.text[Top.pos])
    /\ inc_stack' = Append(Callers, [Top EXCEPT !.pos = @ + 1,
                                                !.acc = Append(@, Top.text[Top.pos])])
    /\ UNCHANGED <<pc, inc_files, inc_out, not_inc>>

\* lines 108-110 and 113-115: the recursive call on the file's text
IncRecurse ==
    /\ pc = "running"
    /\ ~depth_exceeded(Top.depth)
    /\ Top.pos <= Len(Top.text)
    /\ IsDirective(Top.text[Top.pos])
    /\ resolves(inc_files, Top.text[Top.pos])
    /\ Len(inc_stack) < MaxCallDepth
    /\ inc_stack' = Append(inc_stack,
                           Frame(resolve(inc_files, Top.text[Top.pos]), Top.depth + 1))
    /\ UNCHANGED <<pc, inc_files, inc_out, not_inc>>

\* lines 116-117: an unresolved reference is replaced by ""
IncUnresolved ==
    /\ pc = "running"
    /\ ~depth_exceeded(Top.depth)
    /\ Top.pos <= Len(Top.text)
    /\ IsDirective(Top.text[Top.pos])
    /\ ~resolves(inc_files, Top.text[Top.pos])
    /\ inc_stack' = Append(Callers, [Top EXCEPT !.pos = @ + 1])
    /\ UNCHANGED <<pc, inc_files, inc_out, not_inc>>

\* line 119: re.sub has reached the end of the text and returns
IncReturn ==
    /\ pc = "running"
    /\ ~depth_exceeded(Top.depth)
    /\ Top.pos > Len(Top.text)
    /\ ReturnValue(Top.acc)
    /\ UNCHANGED <<inc_files, not_inc>>

NextInc == IncDepthCap \/ IncCopy \/ IncRecurse \/ IncUnresolved \/ IncReturn

SpecInc == InitInc /\ [][NextInc]_vars
\* the interpreter runs a call to its end
FairSpecInc == SpecInc /\ WF_vars(NextInc)

\* ---- what the claims say about include resolution ----
\* C6: _inline_includes terminates and returns a text whatever the files
\* are, a file that inputs itself and files that input each other included.
C6_IncludesTerminate == <>(pc = "done")

\* the main file inputs itself, or the two files input each other
SelfOrCycle ==
    \/ \E p \in 1..Len(inc_files[MainFile]) :
           inc_files[MainFile][p] = <<"input", MainFile, FALSE>>
    \/ /\ "b" \in DOMAIN inc_files
       /\ \E p \in 1..Len(inc_files[MainFile]) :
              IsDirective(inc_files[MainFile][p]) /\ inc_files[MainFile][p][2] = "b"
       /\ \E p \in 1..Len(inc_files["b"]) :
              inc_files["b"][p] = <<"input", MainFile, FALSE>>

C6_Witness == pc = "done" /\ SelfOrCycle /\ Len(inc_out) > 0

\* C7: along any chain of nested directives at most 5 are replaced by file
\* content: no call works on a text reached through more than 5 directives.
C7_AtMostFiveLevels ==
    pc = "running" => \A k \in 1..Len(inc_stack) : inc_stack[k].depth <= 5

(***************************************************************************)
(* _classify_section (md_parser.py 19-59, tex_parser.py 122-171)           *)
(***************************************************************************)
\* str.lower() on the letters A-Z
LowerOf ==
    [A |-> "a", B |-> "b", C |-> "c", D |-> "d", E |-> "e", F |-> "f",
     G |-> "g", H |-> "h", I |-> "i", J |-> "j", K |-> "k", L |-> "l",
     M |-> "m", N |-> "n", O |-> "o", P |-> "p", Q |-> "q", R |-> "r",
     S |-> "s", T |-> "t", U |-> "u", V |-> "v", W |-> "w", X |-> "x",
     Y |-> "y", Z |-> "z"]
str_lower(text) ==
    [p \in 1..Len(text) |->
        IF text[p] \in UpperLetters THEN LowerOf[text[p]] ELSE text[p]]

\* k in h
str_contains(h, k) ==
    \E p \in 1..(Len(h) - Len(k) + 1) : SubSeq(h, p, p + Len(k) - 1) = k

\* any(k in h for k in keywords)
any_in(h, keywords) == \E k \in keywords : str_contains(h, k)

\* the keyword tuples of md_parser.py 22-56
MdKeywords ==
    [abstract |-> {<<"a","b","s","t","r","a","c","t">>},
     motivation |->
        {<<"i","n","t","r","o","d","u","c","t","i","o","n">>,
         <<"b","a","c","k","g","r","o","u","n","d">>,
         <<"r","e","l","a","t","e","d"," ","w","o","r","k">>,
         <<"r","e","l","a","t","e","d">>, <<"p","r","i","o","r">>},
     solution |->
        {<<"m","e","t","h","o","d">>, <<"a","p","p","r","o","a","c","h">>,
         <<"m","o","d","e","l">>,
         <<"a","r","c","h","i","t","e","c","t","u","r","e">>,
         <<"s","y","s","t","e","m">>, <<"p","r","o","p","o","s","e","d">>,
         <<"f","r","a","m","e","w","o","r","k">>},
     results |->
        {<<"r","e","s","u","l","t">>,
         <<"e","x","p","e","r","i","m","e","n","t">>,
         <<"e","v","a","l","u","a","t","i","o","n">>,
         <<"p","e","r","f","o","r","m","a","n","c","e">>,
         <<"b","e","n","c","h","m","a","r","k">>,
         <<"a","n","a","l","y","s","i","s">>},
     contributions |->
        {<<"c","o","n","c","l","u","s","i","o","n">>,
         <<"c","o","n","t","r","i","b","u","t","i","o","n">>,
         <<"s","u","m","m","a","r","y">>,
         <<"d","i","s","c","u","s","s","i","o","n">>,
         <<"f","u","t","u","r","e">>}]

\* the keyword tuples of tex_parser.py 125-168
TexKeywords ==
    [abstract |-> {<<"a","b","s","t","r","a","c","t">>},
     motivation |->
        {<<"i","n","t","r","o","d","u","c","t","i","o","n">>,
         <<"b","a","c","k","g","r","o","u","n","d">>,
         <<"r","e","l","a","t","e","d"," ","w","o","r","k">>,
         <<"r","e","l","a","t","e","d">>,
         <<"m","o","t","i","v","a","t","i","o","n">>,
         <<"p","r","i","o","r"," ","w","o","r","k">>},
     solution |->
        {<<"m","e","t","h","o","d">>, <<"a","p","p","r","o","a","c","h">>,
         <<"m","o","d","e","l">>,
         <<"a","r","c","h","i","t","e","c","t","u","r","e">>,
         <<"s","y","s","t","e","m">>, <<"p","r","o","p","o","s","e","d">>,
         <<"f","r","a","m","e","w","o","r","k">>, <<"d","e","s","i","g","n">>},
     results |->
        {<<"r","e","s","u","l","t">>,
         <<"e","x","p","e","r","i","m","e","n","t">>,
         <<"e","v","a","l","u","a","t","i","o","n">>,
         <<"p","e","r","f","o","r","m","a","n","c","e">>,
         <<"b","e","n","c","h","m","a","r","k">>,
         <<"a","n","a","l","y","s","i","s">>,
         <<"a","b","l","a","t","i","o","n">>},
     contributions |->
        {<<"c","o","n","c","l","u","s","i","o","n">>,
         <<"c","o","n","t","r","i","b","u","t","i","o","n">>,
         <<"s","u","m","m","a","r","y">>,
         <<"d","i","s","c","u","s","s","i","o","n">>,
         <<"f","u","t","u","r","e">>}]

\* md_parser.py 19-59 with the motivation and solution tests exchanged
classify_section_md_swapped(heading) ==
    LET h == str_lower(heading) IN
    IF any_in(h, MdKeywords.abstract) THEN "abstract"
    ELSE IF any_in(h, MdKeywords.solution) THEN "solution"
    ELSE IF any_in(h, MdKeywords.motivation) THEN "motivation"
    ELSE IF any_in(h, MdKeywords.results) THEN "results"
    ELSE IF any_in(h, MdKeywords.contributions) THEN "contributions"
    ELSE "paper_info"

\* md_parser.py 19-59
classify_section_md(heading) ==
    LET h == str_lower(heading) IN
    IF any_in(h, MdKeywords.abstract) THEN "abstract"
    ELSE IF any_in(h, MdKeywords.motivation) THEN "motivation"
    ELSE IF any_in(h, MdKeywords.solution) THEN "solution"
    ELSE IF any_in(h, MdKeywords.results) THEN "results"
    ELSE IF any_in(h, MdKeywords.contributions) THEN "contributions"
    ELSE "paper_info"

\* tex_parser.py 122-171
classify_section_tex(heading) ==
    LET h == str_lower(heading) IN
    IF any_in(h, TexKeywords.abstract) THEN "abstract"
    ELSE IF any_in(h, TexKeywords.motivation) THEN "motivation"
    ELSE IF any_in(h, TexKeywords.solution) THEN "solution"
    ELSE IF any_in(h, TexKeywords.results) THEN "results"
    ELSE IF any_in(h, TexKeywords.contributions) THEN "contributions"
    ELSE "paper_info"

\* Inputs: headings of at most MaxHeadingWords words of HeadingWords, joined
\* by a space, and every keyword of either parser alone
MaxHeadingWords == 2
HeadingWords ==
    {<<"A","b","s","t","r","a","c","t">>,
     <<"A","B","S","T","R","A","C","T">>,
     <<"I","n","t","r","o","d","u","c","t","i","o","n">>,
     <<"B","a","c","k","g","r","o","u","n","d">>,
     <<"R","e","l","a","t","e","d">>, <<"W","o","r","k">>,
     <<"P","r","i","o","r">>, <<"M","o","t","i","v","a","t","i","o","n">>,
     <<"M","e","t","h","o","d">>, <<"M","o","d","e","l">>,
     <<"D","e","s","i","g","n">>, <<"S","y","s","t","e","m">>,
     <<"R","e","s","u","l","t","s">>,
     <<"E","v","a","l","u","a","t","i","o","n">>,
     <<"A","b","l","a","t","i","o","n">>,
     <<"C","o","n","c","l","u","s","i","o","n">>,
     <<"S","u","m","m","a","r","y">>, <<"F","u","t","u","r","e">>,
     <<"O","v","e","r","v","i","e","w">>, <<"D","a","t","a">>}
AllKeywords ==
    UNION {MdKeywords[c] : c \in DOMAIN MdKeywords}
        \cup UNION {TexKeywords[c] : c \in DOMAIN TexKeywords}

RECURSIVE JoinWords(_)
JoinWords(ws) ==
    IF Len(ws) = 0 THEN <<>>
    ELSE IF Len(ws) = 1 THEN ws[1]
    ELSE ws[1] \o <<" ">> \o JoinWords(Tail(ws))

Headings == {JoinWords(ws) : ws \in SeqsUpTo(HeadingWords, MaxHeadingWords)} \cup AllKeywords

InitClassify ==
    /\ pc = "start"
    /\ cl_heading \in Headings
    /\ cl_md = None
    /\ cl_tex = None
    /\ OthersIdle({"classify"})

\* both parsers classify the heading
CallClassifySection ==
    /\ pc = "start"
    /\ cl_heading # None
    /\ cl_md' = classify_section_md(cl_heading)
    /\ cl_tex' = classify_section_tex(cl_heading)
    /\ pc' = "done"
    /\ UNCHANGED <<cl_heading, not_classify>>

SpecClassify == InitClassify /\ [][CallClassifySection]_vars

\* ---- what the claims say about classification ----
\* the categories in priority order; paper_info is the default
Priority == <<"abstract", "motivation", "solution", "results", "contributions">>
Categories == {Priority[i] : i \in 1..Len(Priority)} \cup {"paper_info"}

\* the category the claim assigns: the first in priority order one of whose
\* keywords occurs in the lower-cased heading, paper_info if there is none
FirstMatching(heading, keywords) ==
    LET hits == {i \in 1..Len(Priority) :
                    \E k \in keywords[Priority[i]] : str_contains(str_lower(heading), k)}
    IN  IF hits = {} THEN "paper_info"
        ELSE Priority[CHOOSE i \in hits : \A j \in hits : i <= j]

\* C8: each parser's _classify_section returns one of the six categories, the
\* first in priority order with a keyword occurring in the lower-cased
\* heading, and paper_info when no keyword occurs.
C8_FirstMatchWins ==
    pc = "done" =>
        /\ cl_md \in Categories /\ cl_tex \in Categories
        /\ cl_md = FirstMatching(cl_heading, MdKeywords)
        /\ cl_tex = FirstMatching(cl_heading, TexKeywords)

\* a heading with keywords of two categories has got the earlier one
C8_Witness ==
    /\ pc = "done"
    /\ any_in(str_lower(cl_heading), MdKeywords.motivation)
    /\ any_in(str_lower(cl_heading), MdKeywords.solution)
    /\ cl_md = "motivation" /\ cl_tex = "motivation"

\* C9: the Markdown and the LaTeX _classify_section return the same category
\* for every heading.
C9_SameCategory ==
    pc = "done" => cl_md = cl_tex

(***************************************************************************)
(* parse_latex, equations (tex_parser.py 348-383)                          *)
(*                                                                         *)
(* The include-resolved text raw (line 216) is a sequence of characters    *)
(* in which a marker \begin{env} or \end{env} is one element, the string   *)
(* of its characters.  The patterns of lines 181-188, 365 and 371 are      *)
(* matched element by element as re matches them.                          *)
(***************************************************************************)
Begin(env) == "\\begin{" \o env \o "}"
End(env) == "\\end{" \o env \o "}"

\* the environment names of lines 348-358, in the order of the loop
EquationEnvs ==
    <<"equation", "equation*", "align", "align*", "eqnarray",
      "gather", "gather*", "multline", "multline*">>

\* first position >= from holding the symbol sym (Len(text) + 1 if none)
RECURSIVE FindSym(_, _, _)
FindSym(text, from, sym) ==
    IF from > Len(text) \/ text[from] = sym THEN from
    ELSE FindSym(text, from + 1, sym)

\* lines 179-189: _extract_env, the group 1 of every match from position i on
RECURSIVE extract_env(_, _, _)
extract_env(text, env, i) ==
    IF i > Len(text) THEN <<>>
    ELSE IF text[i] = Begin(env) /\ FindSym(text, i + 1, End(env)) <= Len(text)
    THEN LET e == FindSym(text, i + 1, End(env))
         IN  <<SubSeq(text, i + 1, e - 1)>> \o extract_env(text, env, e + 1)
    ELSE extract_env(text, env, i + 1)

\* lines 360-362, 366-368 and 372-374: the stripped non-empty contents
stripped_nonempty(contents) ==
    SelectSeq([k \in 1..Len(contents) |-> str_strip(contents[k])],
              LAMBDA eq : eq # <<>>)

\* lines 348-362: the named environments, environment by environment
RECURSIVE env_equations(_, _)
env_equations(text, k) ==
    IF k > Len(EquationEnvs) THEN <<>>
    ELSE stripped_nonempty(extract_env(text, EquationEnvs[k], 1))
            \o env_equations(text, k + 1)

IsDollar(text, p) == p >= 1 /\ p <= Len(text) /\ text[p] = "$"

\* number of characters of a text
RECURSIVE CharCount(_)
CharCount(text) ==
    IF text = <<>> THEN 0 ELSE Len(text[1]) + CharCount(Tail(text))

\* line 365: (?<!\$)\$(?!\$)([^$\n]{2,}?)(?<!\$)\$(?!\$), the group 1 of every
\* match from position i on
RECURSIVE inline_matches(_, _)
inline_matches(text, i) ==
    IF i > Len(text) THEN <<>>
    ELSE LET e == FindFirst(text, i + 1, {"$", "\n"}) IN
         IF /\ IsDollar(text, i) /\ ~IsDollar(text, i - 1) /\ ~IsDollar(text, i + 1)
            /\ IsDollar(text, e) /\ ~IsDollar(text, e + 1)
            /\ CharCount(SubSeq(text, i + 1, e - 1)) >= 2
         THEN <<SubSeq(text, i + 1, e - 1)>> \o inline_matches(text, e + 1)
         ELSE inline_matches(text, i + 1)

\* first position p >= from with "$$" at p and p + 1 (Len(text) + 1 if none)
RECURSIVE FindDollars(_, _)
FindDollars(text, from) ==
    IF from > Len(text) THEN Len(text) + 1
    ELSE IF IsDollar(text, from) /\ IsDollar(text, from + 1) THEN from
    ELSE FindDollars(text, from + 1)

\* line 371: \$\$(.+?)\$\$ with re.DOTALL, the group 1 of every match from
\* position i on
RECURSIVE display_matches(_, _)
display_matches(text, i) ==
    IF i > Len(text) THEN <<>>
    ELSE LET e == FindDollars(text, i + 3) IN
         IF IsDollar(text, i) /\ IsDollar(text, i + 1) /\ e <= Len(text)
         THEN <<SubSeq(text, i + 2, e - 1)>> \o display_matches(text, e + 2)
         ELSE display_matches(text, i + 1)

\* lines 348-374: result["equations"] before deduplication
latex_equations_raw(text) ==
    env_equations(text, 1)
        \o stripped_nonempty(inline_matches(text, 1))
        \o stripped_nonempty(display_matches(text, 1))

\* a deduplication that keeps the last occurrence of each string
RECURSIVE dedupe_keep_last(_)
dedupe_keep_last(eqs) ==
    IF eqs = <<>> THEN <<>>
    ELSE IF \E k \in 2..Len(eqs) : eqs[k] = eqs[1]
    THEN dedupe_keep_last(Tail(eqs))
    ELSE <<eqs[1]>> \o dedupe_keep_last(Tail(eqs))

\* lines 377-382: the loop over result["equations"] from index k on
RECURSIVE dedupe_loop(_, _, _, _)
dedupe_loop(eqs, k, seen, unique_eqs) ==
    IF k > Len(eqs) THEN unique_eqs
    ELSE IF eqs[k] \notin seen
    THEN dedupe_loop(eqs, k + 1, seen \cup {eqs[k]}, Append(unique_eqs, eqs[k]))
    ELSE dedupe_loop(eqs, k + 1, seen, unique_eqs)

\* lines 377-383
dedupe(eqs) == dedupe_loop(eqs, 1, {}, <<>>)

\* lines 348-383
latex_equations(text) == dedupe(latex_equations_raw(text))

\* Inputs: texts of at most MaxTexChunks of these pieces
MaxTexChunks == 3
TexChunks ==
    {<<"$", "x", "x", "$">>,
     <<"$", " ", "x", "x", "$">>,
     <<"$", "y", "y", "$">>,
     <<"$", "x", "$">>,
     <<"$", "$", "x", "x", "$", "$">>,
     <<"$", "$", "\n", "y", "y", "$", "$">>,
     <<Begin("equation"), "x", "x", End("equation")>>,
     <<Begin("align*"), " ", "y", "y", "\n", End("align*")>>,
     <<Begin("gather"), " ", End("gather")>>,
     <<" ", "a", "\n">>}

RECURSIVE Flatten(_)
Flatten(chunks) ==
    IF chunks = <<>> THEN <<>> ELSE chunks[1] \o Flatten(Tail(chunks))

TexTexts == {Flatten(cs) : cs \in SeqsUpTo(TexChunks, MaxTexChunks)}

InitLatex ==
    /\ pc = "start"
    /\ tex_raw \in TexTexts
    /\ tex_result = None
    /\ OthersIdle({"latex"})

\* parse_latex on the include-resolved text
CallParseLatex ==
    /\ pc = "start"
    /\ tex_raw # None
    /\ tex_result' = [equations |-> latex_equations(tex_raw)]
    /\ pc' = "done"
    /\ UNCHANGED <<tex_raw, not_latex>>

SpecLatex == InitLatex /\ [][CallParseLatex]_vars

\* ---- what the claims say about the equations of parse_latex ----
FirstIndex(seq, x) == CHOOSE k \in 1..Len(seq) : seq[k] = x /\ \A j \in 1..(k - 1) : seq[j] # x

\* C10: the equations of parse_latex hold no string twice; they are the
\* strings extracted by the environment, inline and display passes, each once,
\* in the order of their first extraction.
C10_LatexEquationsDeduplicated ==
    pc = "done" =>
        LET eqs == tex_result.equations
            raw == latex_equations_raw(tex_raw)
        IN  /\ \A i, j \in 1..Len(eqs) : i # j => eqs[i] # eqs[j]
            /\ {eqs[i] : i \in 1..Len(eqs)} = {raw[k] : k \in 1..Len(raw)}
            /\ \A i, j \in 1..Len(eqs) :
                   i < j => FirstIndex(raw, eqs[i]) < FirstIndex(raw, eqs[j])

\* a string was extracted twice, with another string extracted in between
C10_Witness ==
    /\ pc = "done"
    /\ LET raw == latex_equations_raw(tex_raw)
       IN  \E i, j, k \in 1..Len(raw) :
               i < j /\ j < k /\ raw[i] = raw[k] /\ raw[i] # raw[j]
    /\ Len(tex_result.equations) = 2

(***************************************************************************)
(* parse_markdown (md_parser.py 67-222).  The text is a sequence of         *)
(* characters; lines end with "\n".                                        *)
(***************************************************************************)
Max(S) == CHOOSE x \in S : \A y \in S : y <= x

\* str.splitlines() from position i on
RECURSIVE splitlines(_, _)
splitlines(text, i) ==
    IF i > Len(text) THEN <<>>
    ELSE LET e == FindFirst(text, i, {"\n"})
         IN  <<SubSeq(text, i, e - 1)>> \o splitlines(text, e + 1)

\* str.strip(chars)
strip_chars(text, S) ==
    LET inner == {p \in 1..Len(text) : text[p] \notin S}
    IN  IF inner = {} THEN <<>>
        ELSE SubSeq(text, CHOOSE p \in inner : \A q \in inner : p <= q, Max(inner))

StartsWith(text, p, prefix) ==
    p + Len(prefix) - 1 <= Len(text) /\ SubSeq(text, p, p + Len(prefix) - 1) = prefix

Dashes == <<"-", "-", "-">>

\* the "\n" that \s*\n ends with when \s* starts at position p: the last
\* newline of the whitespace run, 0 if the run has none
LastNewline(text, p) ==
    LET nl == {q \in p..(RunEnd(text, p, Whitespace) - 1) : text[q] = "\n"}
    IN  IF nl = {} THEN 0 ELSE Max(nl)

\* line 96: re.match(r"^---\s*\n(.*?)\n---\s*\n", text, re.DOTALL); the match
\* as [found, group (positions first..last), end (position after the match)]
frontmatter_match(text) ==
    LET opens == {n \in 4..(RunEnd(text, 4, Whitespace) - 1) : text[n] = "\n"}
        \* positions c of a closing "\n---\s*\n" for the opening newline n
        closes(n) == {c \in (n + 1)..Len(text) :
                        /\ StartsWith(text, c, <<"\n">> \o Dashes)
                        /\ LastNewline(text, c + 4) # 0}
        usable == {n \in opens : closes(n) # {}}
    IN  IF ~StartsWith(text, 1, Dashes) \/ usable = {} THEN [found |-> FALSE]
        ELSE LET n == Max(usable)                   \* \s* is greedy
                 c == CHOOSE x \in closes(n) : \A y \in closes(n) : x <= y
             IN  [found |-> TRUE, first |-> n + 1, last |-> c - 1,
                  end |-> LastNewline(text, c + 4) + 1]

\* lines 98-101: frontmatter[key] after the loop, <<>> with present FALSE
\* when no line sets it
frontmatter_get(lines, key) ==
    LET colon(l) == FindFirst(l, 1, {":"})
        sets == {k \in 1..Len(lines) :
                    /\ colon(lines[k]) <= Len(lines[k])
                    /\ str_lower(str_strip(SubSeq(lines[k], 1, colon(lines[k]) - 1))) = key}
    IN  IF sets = {} THEN [present |-> FALSE, value |-> <<>>]
        ELSE LET l == lines[Max(sets)]
             IN  [present |-> TRUE,
                  value |-> str_strip(SubSeq(l, colon(l) + 1, Len(l)))]

\* line 120: _block_eq_re.sub("[EQUATION]", text) from position i on; the
\* placeholder is one element
RECURSIVE sub_block_equations(_, _)
sub_block_equations(text, i) ==
    IF i > Len(text) THEN <<>>
    ELSE LET e == FindDollars(text, i + 3) IN
         IF IsDollar(text, i) /\ IsDollar(text, i + 1) /\ e <= Len(text)
         THEN <<"[EQUATION]">> \o sub_block_equations(text, e + 2)
         ELSE <<text[i]>> \o sub_block_equations(text, i + 1)

\* lines 114-129
markdown_equations(text) ==
    stripped_nonempty(display_matches(text, 1))
        \o stripped_nonempty(inline_matches(sub_block_equations(text, 1), 1))

\* lines 134-137: the figures of every match of !\[([^\]]*)\]\(([^)]*)\) from
\* position i on
RECURSIVE markdown_figures(_, _)
markdown_figures(text, i) ==
    IF i > Len(text) THEN <<>>
    ELSE LET c == FindFirst(text, i + 2, {"]"})
             e == FindFirst(text, c + 2, {")"})
         IN  IF /\ StartsWith(text, i, <<"!", "[">>)
                /\ StartsWith(text, c, <<"]", "(">>)
                /\ e <= Len(text)
             THEN <<[caption |-> str_strip(SubSeq(text, i + 2, c - 1)),
                     path |-> str_strip(SubSeq(text, c + 2, e - 1))]>>
                    \o markdown_figures(text, e + 1)
             ELSE markdown_figures(text, i + 1)

\* "\n".join(table_buf)
RECURSIVE JoinLines(_)
JoinLines(lines) ==
    IF Len(lines) = 0 THEN <<>>
    ELSE IF Len(lines) = 1 THEN lines[1]
    ELSE lines[1] \o <<"\n">> \o JoinLines(Tail(lines))

\* line 151: re.search(r"\|[-:]+\|", raw)
has_separator_row(raw) ==
    \E q \in 1..Len(raw) :
        LET e == RunEnd(raw, q + 1, {"-", ":"})
        IN  raw[q] = "|" /\ e > q + 1 /\ e <= Len(raw) /\ raw[e] = "|"

\* lines 143-155: the loop over text.splitlines() from line k on, and the
\* flush after the loop
RECURSIVE markdown_tables(_, _, _, _)
markdown_tables(lines, k, table_buf, tables) ==
    IF k > Len(lines)
    THEN IF table_buf # <<>> THEN Append(tables, JoinLines(table_buf)) ELSE tables
    ELSE IF str_contains(str_strip(lines[k]), <<"|">>)
    THEN markdown_tables(lines, k + 1, Append(table_buf, lines[k]), tables)
    ELSE IF table_buf # <<>>
              /\ (Len(table_buf) >= 2 \/ has_separator_row(JoinLines(table_buf)))
    THEN markdown_tables(lines, k + 1, <<>>, Append(tables, JoinLines(table_buf)))
    ELSE markdown_tables(lines, k + 1, <<>>, tables)

\* line 163: a match of ^(#{1,6})\s+(.+?)[ \t]*$ (re.MULTILINE) at position p
heading_match(text, p) ==
    LET hashes == RunEnd(text, p, {"#"}) - p
        w == RunEnd(text, p + hashes, Whitespace)
        \* where (.+?) can start: \s+ is greedy and gives characters back
        starts == {e \in (p + hashes + 1)..w : e <= Len(text) /\ text[e] # "\n"}
    IN  IF (p > 1 /\ text[p - 1] # "\n") \/ hashes < 1 \/ hashes > 6 \/ starts = {}
        THEN [found |-> FALSE]
        ELSE LET e == Max(starts)
                 eol == FindFirst(text, e, {"\n"})
                 last == Max({q \in e..(eol - 1) : text[q] \notin Blanks} \cup {e})
             IN  [found |-> TRUE, start |-> p, level |-> hashes,
                  heading |-> SubSeq(text, e, last), end |-> eol]

\* line 164: the matches _heading_re.split(text) splits at, from position i on
RECURSIVE heading_matches(_, _)
heading_matches(text, i) ==
    IF i > Len(text) THEN <<>>
    ELSE LET m == heading_match(text, i) IN
         IF m.found THEN <<m>> \o heading_matches(text, m.end)
         ELSE heading_matches(text, i + 1)

\* lines 168-188: the sections, one per heading
markdown_sections(text) ==
    LET ms == heading_matches(text, 1) IN
    [k \in 1..Len(ms) |->
        LET heading == str_strip(ms[k].heading)
            stop == IF k < Len(ms) THEN ms[k + 1].start - 1 ELSE Len(text)
        IN  [heading |-> heading,
             level |-> ms[k].level,
             text |-> str_strip(SubSeq(text, ms[k].end, stop)),
             category |-> classify_section_md(heading)]]

\* parts[0] of line 164: the text before the first heading
markdown_preamble(text) ==
    LET ms == heading_matches(text, 1)
    IN  IF ms = <<>> THEN text ELSE SubSeq(text, 1, ms[1].start - 1)

\* the first element of seq satisfying Test, <<>> if there is none
FirstOr(seq, Test(_)) ==
    LET hits == SelectSeq(seq, Test) IN IF hits = <<>> THEN <<>> ELSE hits[1]

\* line 207: len(candidate) < 200
AuthorLineLimit == 200

\* lines 197-212: the author line found in the preamble, <<>> if none
preamble_authors(preamble) ==
    LET all == splitlines(preamble, 1)
        lines == SelectSeq([k \in 1..Len(all) |-> str_strip(all[k])],
                           LAMBDA ln : ln # <<>>)
        non_heading == SelectSeq(lines, LAMBDA ln : ln[1] # "#")
    IN  IF non_heading = <<>> THEN <<>>
        ELSE LET candidate == non_heading[1] IN
             IF /\ Len(candidate) < AuthorLineLimit
                /\ \/ str_contains(candidate, <<",">>)
                   \/ str_contains(str_lower(candidate), <<" ", "a", "n", "d", " ">>)
                   \/ /\ Len(candidate) >= 2
                      /\ candidate[1] \in UpperLetters
                      /\ candidate[2] \in LowerLetters
             THEN candidate
             ELSE <<>>

\* md_parser.py 67-222
parse_markdown(text0) ==
    LET fm == frontmatter_match(text0)
        fm_lines == IF fm.found THEN splitlines(SubSeq(text0, fm.first, fm.last), 1)
                    ELSE <<>>
        text == IF fm.found THEN SubSeq(text0, fm.end, Len(text0)) ELSE text0
        fm_title == frontmatter_get(fm_lines, <<"t", "i", "t", "l", "e">>)
        fm_author == frontmatter_get(fm_lines, <<"a", "u", "t", "h", "o", "r">>)
        fm_authors == frontmatter_get(fm_lines, <<"a", "u", "t", "h", "o", "r", "s">>)
        title0 == IF fm_title.present THEN strip_chars(fm_title.value, {"\"", "'"})
                  ELSE <<>>
        authors0 == IF fm_authors.present THEN fm_authors.value
                    ELSE IF fm_author.present THEN fm_author.value ELSE <<>>
        sections == markdown_sections(text)
        headings == [k \in 1..Len(sections) |->
                        IF sections[k].level = 1 THEN sections[k].heading ELSE <<>>]
        abstracts == [k \in 1..Len(sections) |->
                        IF sections[k].category = "abstract" THEN sections[k].text
                        ELSE <<>>]
    IN  [title |-> IF title0 # <<>> THEN title0
                   ELSE FirstOr(headings, LAMBDA h : h # <<>>),       \* 176-177
         abstract |-> FirstOr(abstracts, LAMBDA b : b # <<>>),       \* 191-192
         authors |-> IF authors0 # <<>> THEN authors0
                     ELSE preamble_authors(markdown_preamble(text)),
         sections |-> sections,
         figures |-> markdown_figures(text, 1),
         tables |-> markdown_tables(splitlines(text, 1), 1, <<>>, <<>>),
         equations |-> markdown_equations(text)]

\* Inputs: texts of at most MaxMdChunks of the pieces of MdChunks, and the
\* text of the end-to-end scenario
MaxMdChunks == 3
\* '# My Paper\n'
TitleLine ==
    <<"#", " ", "M", "y", " ", "P", "a", "p", "e", "r", "\n">>
\* '\n'
BlankLine ==
    <<"\n">>
\* 'Jane Doe, John Roe\n'
AuthorsLine ==
    <<"J", "a", "n", "e", " ", "D", "o", "e", ",", " ", "J", "o", "h",
          "n", " ", "R", "o", "e", "\n">>
\* '## Abstract\n'
AbstractHeading ==
    <<"#", "#", " ", "A", "b", "s", "t", "r", "a", "c", "t", "\n">>
\* 'We study X.\n'
AbstractBody ==
    <<"W", "e", " ", "s", "t", "u", "d", "y", " ", "X", ".", "\n">>
\* '## Introduction\n'
IntroductionHeading ==
    <<"#", "#", " ", "I", "n", "t", "r", "o", "d", "u", "c", "t", "i",
          "o", "n", "\n">>
\* 'X is hard.\n'
IntroductionBody ==
    <<"X", " ", "i", "s", " ", "h", "a", "r", "d", ".", "\n">>
\* '## Method\n'
MethodHeading ==
    <<"#", "#", " ", "M", "e", "t", "h", "o", "d", "\n">>
\* 'We do Y.\n'
MethodBody ==
    <<"W", "e", " ", "d", "o", " ", "Y", ".", "\n">>
\* the other pieces are '---\ntitle: "T"\nAuthor: A B\n---\n', '$$xx$$\n',
\* 'a $xx$ $ xx$\n', '![c](p)\n' and '|a|\n'
MdChunks ==
    {TitleLine, BlankLine, AuthorsLine, AbstractHeading, AbstractBody,
     IntroductionHeading, IntroductionBody, MethodHeading, MethodBody,
     <<"-", "-", "-", "\n", "t", "i", "t", "l", "e", ":", " ", "\"", "T", "\"",
       "\n", "A", "u", "t", "h", "o", "r", ":", " ", "A", " ", "B", "\n",
       "-", "-", "-", "\n">>,
     <<"$", "$", "x", "x", "$", "$", "\n">>,
     <<"a", " ", "$", "x", "x", "$", " ", "$", " ", "x", "x", "$", "\n">>,
     <<"!", "[", "c", "]", "(", "p", ")", "\n">>,
     <<"|", "a", "|", "\n">>}

\* "# My Paper\n\nJane Doe, John Roe\n\n## Abstract\n\nWe study X.\n\n
\*  ## Introduction\n\nX is hard.\n\n## Method\n\nWe do Y.\n"
ScenarioText ==
    Flatten(<<TitleLine, BlankLine, AuthorsLine, BlankLine,
              AbstractHeading, BlankLine, AbstractBody, BlankLine,
              IntroductionHeading, BlankLine, IntroductionBody, BlankLine,
              MethodHeading, BlankLine, MethodBody>>)

MdTexts == {Flatten(cs) : cs \in SeqsUpTo(MdChunks, MaxMdChunks)} \cup {ScenarioText}

InitMarkdown ==
    /\ pc = "start"
    /\ md_text \in MdTexts
    /\ md_result = None
    /\ OthersIdle({"markdown"})

CallParseMarkdown ==
    /\ pc = "start"
    /\ md_text # None
    /\ md_result' = parse_markdown(md_text)
    /\ pc' = "done"
    /\ UNCHANGED <<md_text, not_markdown>>

SpecMarkdown == InitMarkdown /\ [][CallParseMarkdown]_vars

\* ---- what the claims say about parse_markdown ----
\* C1: on the scenario text parse_markdown returns title "My Paper", authors
\* "Jane Doe, John Roe", abstract "We study X." and exactly three sections,
\* of categories abstract, motivation, solution in that order.
C1_Scenario ==
    (pc = "done" /\ md_text = ScenarioText) =>
        /\ md_result.title = <<"M", "y", " ", "P", "a", "p", "e", "r">>
        /\ md_result.authors = str_strip(AuthorsLine)
        /\ md_result.abstract = str_strip(AbstractBody)
        /\ Len(md_result.sections) = 3
        /\ [k \in 1..3 |-> md_result.sections[k].category]
               = <<"abstract", "motivation", "solution">>

\* C11: an equation string that occurs more than once in the Markdown text, as
\* display math, inline math or both, is in the equations of parse_markdown
\* exactly once: the list holds no string twice.
C11_MarkdownEquationsDeduplicated ==
    pc = "done" =>
        LET eqs == md_result.equations
        IN  \A i, j \in 1..Len(eqs) : eqs[i] = eqs[j] => i = j

\* the maximal runs of consecutive lines holding "|", from line k on
RECURSIVE PipeRuns(_, _)
PipeRuns(lines, k) ==
    IF k > Len(lines) THEN <<>>
    ELSE IF ~str_contains(lines[k], <<"|">>) THEN PipeRuns(lines, k + 1)
    ELSE LET rest == {e \in k..Len(lines) : ~str_contains(lines[e], <<"|">>)}
             stop == IF rest = {} THEN Len(lines) + 1
                     ELSE CHOOSE e \in rest : \A f \in rest : e <= f
         IN  <<SubSeq(lines, k, stop - 1)>> \o PipeRuns(lines, stop)

\* a run is a table when it has at least 2 lines or holds a separator row
IsTableRun(run) == Len(run) >= 2 \/ has_separator_row(JoinLines(run))

\* C12: the tables of parse_markdown are the maximal runs of lines holding "|"
\* that have at least 2 lines or a separator row, one table per run, in order;
\* every other run, a single stray line as the last line included, is dropped.
C12_TablesAreQualifiedRuns ==
    pc = "done" =>
        LET runs == SelectSeq(PipeRuns(splitlines(md_text, 1), 1), IsTableRun)
        IN  md_result.tables = [k \in 1..Len(runs) |-> JoinLines(runs[k])]

(***************************************************************************)
(* extract_and_find_main (zip_handler.py 17-91)                            *)
(* A path is a sequence of characters, "/" and the extension ".tex".  The  *)
(* content of a file is a sequence of items: <<"\\documentclass">>,        *)
(* <<"\\begin{document}">>, and <<"input", target>> for one match of the   *)
(* pattern of line 63, \input{target} or \include{target}.                 *)
(***************************************************************************)
DocumentClass == <<"\\documentclass">>
BeginDocument == <<Begin("document")>>
TexSuffix == <<".tex">>

\* str.endswith
EndsWith(s, suffix) ==
    Len(suffix) <= Len(s) /\ SubSeq(s, Len(s) - Len(suffix) + 1, Len(s)) = suffix

\* Path(p).name
path_name(p) ==
    LET slashes == {q \in 1..Len(p) : p[q] = "/"}
    IN  IF slashes = {} THEN p ELSE SubSeq(p, Max(slashes) + 1, Len(p))

\* extract_path / rel, as the string str(tf)
ExtractDir == <<"zip_extract">>
str_path(rel) == ExtractDir \o <<"/">> \o rel

\* line 48: extract_path.rglob("*.tex"), in the order of the file system
tex_files(members) == SelectSeq(members, LAMBDA f : EndsWith(f.path, TexSuffix))

\* lines 67-69: the file name a directive names
included_path(target) ==
    LET included == str_strip(target)
    IN  IF EndsWith(included, TexSuffix) THEN included ELSE included \o TexSuffix

\* lines 72-75: the test under which a directive of reader counts against tf
\* (no path of the inputs holds a backslash, so replace("\\", "/") changes nothing)
counts_against(tf, reader, target) ==
    /\ str_path(tf) # str_path(reader)
    /\ \/ path_name(tf) = path_name(included_path(target))
       \/ EndsWith(str_path(tf), included_path(target))

\* lines 62-76: inclusion_count[str(tf)], one per directive of another file
inclusion_count(files, k) ==
    Cardinality({rq \in UNION {{<<r, q>> : q \in 1..Len(files[r].content)} :
                                   r \in 1..Len(files)} :
        /\ IsDirective(files[rq[1]].content[rq[2]])
        /\ counts_against(files[k].path, files[rq[1]].path,
                          files[rq[1]].content[rq[2]][2])})

\* lines 80-87
score(files, k) ==
    (IF \E q \in 1..Len(files[k].content) : files[k].content[q] = DocumentClass
     THEN 100 ELSE 0)
    + (IF \E q \in 1..Len(files[k].content) : files[k].content[q] = BeginDocument
       THEN 50 ELSE 0)
    - 10 * inclusion_count(files, k)

\* line 89: max(scores, key=...) returns the first key of maximal score
best(files) ==
    CHOOSE k \in 1..Len(files) :
        /\ \A j \in 1..Len(files) : score(files, j) <= score(files, k)
        /\ \A j \in 1..(k - 1) : score(files, j) < score(files, k)

\* the whole function: what it raises or returns
extract_and_find_main(archive) ==
    IF archive.corrupt THEN <<"raise", "RuntimeError">>
    ELSE LET files == tex_files(archive.members)
         IN  IF files = <<>> THEN <<"raise", "ValueError">>
             ELSE <<"return", str_path(files[best(files)].path)>>

\* Inputs: a corrupt archive, archives without a .tex file, and archives of
\* three .tex files in every order of the file system.  The three paths are
\* flat, or two of them share a file name in different directories, or one
\* name ends with another.  Each file holds any of the two markers; one file
\* at most also holds 1..MaxRepeat directives naming one of the files, with
\* or without extension.
MaxRepeat == 6
Layouts ==
    {<<<<"m", ".tex">>, <<"b", ".tex">>, <<"c", ".tex">>>>,
     <<<<"a", "/", "m", ".tex">>, <<"b", "/", "m", ".tex">>, <<"c", ".tex">>>>,
     <<<<"x", "m", ".tex">>, <<"m", ".tex">>, <<"c", ".tex">>>>}
Targets(layout) ==
    {layout[k] : k \in 1..3} \cup {SubSeq(layout[k], 1, Len(layout[k]) - 1) : k \in 1..3}
MarkerTexts == {<<>>, <<DocumentClass>>, <<BeginDocument>>, <<DocumentClass, BeginDocument>>}
Orders == {o \in [1..3 -> 1..3] : \A i, j \in 1..3 : o[i] = o[j] => i = j}
ThreeFiles(layout, order, markers, reader, target, n) ==
    [corrupt |-> FALSE,
     members |->
        [k \in 1..3 |->
            [path |-> layout[order[k]],
             content |-> markers[order[k]]
                 \o (IF order[k] = reader THEN [q \in 1..n |-> <<"input", target>>]
                     ELSE <<>>)]]]
NoTexArchives ==
    {[corrupt |-> FALSE, members |-> <<>>],
     [corrupt |-> FALSE, members |-> <<[path |-> <<"f", ".png">>, content |-> <<>>]>>]}
CorruptArchive == [corrupt |-> TRUE, members |-> <<>>]

InitZip ==
    /\ pc = "start"
    /\ \/ zip_archive \in {CorruptArchive} \cup NoTexArchives
       \/ \E layout \in Layouts, order \in Orders, markers \in [1..3 -> MarkerTexts] :
              \/ zip_archive = ThreeFiles(layout, order, markers, 0, <<>>, 0)
              \/ \E reader \in 1..3, target \in Targets(layout), n \in 1..MaxRepeat :
                     zip_archive = ThreeFiles(layout, order, markers, reader, target, n)
    /\ zip_out = None
    /\ OthersIdle({"zip"})

\* lines 42-46: the archive cannot be opened
ZipBadArchive ==
    /\ pc = "start"
    /\ zip_archive.corrupt
    /\ zip_out' = extract_and_find_main(zip_archive)
    /\ pc' = "raised"
    /\ UNCHANGED <<zip_archive, not_zip>>

\* lines 48-50: no .tex file under extract_dir
ZipNoTex ==
    /\ pc = "start"
    /\ ~zip_archive.corrupt /\ tex_files(zip_archive.members) = <<>>
    /\ zip_out' = extract_and_find_main(zip_archive)
    /\ pc' = "raised"
    /\ UNCHANGED <<zip_archive, not_zip>>

\* lines 52-91: the files are scored and the best one is returned
ZipSelectMain ==
    /\ pc = "start"
    /\ ~zip_archive.corrupt /\ tex_files(zip_archive.members) # <<>>
    /\ zip_out' = extract_and_find_main(zip_archive)
    /\ pc' = "done"
    /\ UNCHANGED <<zip_archive, not_zip>>

NextZip == ZipBadArchive \/ ZipNoTex \/ ZipSelectMain
SpecZip == InitZip /\ [][NextZip]_vars

\* ---- what the claims say about extract_and_find_main ----
HasBothMarkers(f) ==
    /\ \E q \in 1..Len(f.content) : f.content[q] = DocumentClass
    /\ \E q \in 1..Len(f.content) : f.content[q] = BeginDocument

\* a directive refers to the file whose path it names, the extension added
\* when it is left out
RefersTo(target, path) == included_path(target) = path

\* C13: when exactly one of three .tex files holds both \documentclass and
\* \begin{document} and no directive of another file refers to it, that file
\* is returned, in every order of the files and whatever the others hold.
C13_UnreferencedMainSelected ==
    pc = "done" =>
        LET files == tex_files(zip_archive.members)
        IN  \A k \in 1..Len(files) :
                (/\ Len(files) = 3
                 /\ HasBothMarkers(files[k])
                 /\ \A j \in 1..3 : j # k => ~HasBothMarkers(files[j])
                 /\ \A j \in 1..3 : j # k =>
                        \A q \in 1..Len(files[j].content) :
                            IsDirective(files[j].content[q])
                                => ~RefersTo(files[j].content[q][2], files[k].path))
                => zip_out = <<"return", str_path(files[k].path)>>

\* the score of the claim: every other file that transcludes the file counts
\* once, however many directives it holds
TranscludedBy(files, k) ==
    {r \in 1..Len(files) :
        \E q \in 1..Len(files[r].content) :
            /\ IsDirective(files[r].content[q])
            /\ counts_against(files[k].path, files[r].path, files[r].content[q][2])}
ScorePerFile(files, k) ==
    (IF \E q \in 1..Len(files[k].content) : files[k].content[q] = DocumentClass
     THEN 100 ELSE 0)
    + (IF \E q \in 1..Len(files[k].content) : files[k].content[q] = BeginDocument
       THEN 50 ELSE 0)
    - 10 * Cardinality(TranscludedBy(files, k))

\* C14: the file returned has the maximal score, 100 for \documentclass plus
\* 50 for \begin{document} minus 10 per other file that transcludes it, and
\* is the first of that score in the order of the scoring pass.
C14_MaximalScoreFirstWins ==
    pc = "done" =>
        LET files == tex_files(zip_archive.members)
        IN  \E k \in 1..Len(files) :
                /\ zip_out = <<"return", str_path(files[k].path)>>
                /\ \A j \in 1..Len(files) : ScorePerFile(files, j) <= ScorePerFile(files, k)
                /\ \A j \in 1..(k - 1) : ScorePerFile(files, j) < ScorePerFile(files, k)

(***************************************************************************)
(* The ingestor (ingestor.py).  A text is a sequence of characters in      *)
(* which a literal of the source is one element, e.g. "Figure ", and a     *)
(* number is the element ToString gives; strip, slices and joins act on    *)
(* the sequence as the string methods act on the string.                   *)
(***************************************************************************)
\* sep.join(parts)
RECURSIVE str_join(_, _)
str_join(sep, parts) ==
    IF Len(parts) = 0 THEN <<>>
    ELSE IF Len(parts) = 1 THEN parts[1]
    ELSE parts[1] \o sep \o str_join(sep, Tail(parts))

\* text[:n]
str_take(text, n) == SubSeq(text, 1, IF Len(text) < n THEN Len(text) ELSE n)

\* a or b, on strings
or_else(a, b) == IF a # <<>> THEN a ELSE b

\* f"{i}"
int_text(i) == <<ToString(i)>>

\* lines 21-27
make_result(query, answer) ==
    [query |-> query, answer |-> answer, mode |-> "direct_parse", success |-> TRUE]

\* the filter of the category test of line 33 left out
collect_any_category_text(sections, category) ==
    LET kept == SelectSeq(sections, LAMBDA s : s.text # <<>>)
    IN  str_strip(str_join(<<"\n", "\n">>, [k \in 1..Len(kept) |-> kept[k].text]))

\* lines 30-35
collect_category_text(sections, category) ==
    LET kept == SelectSeq(sections, LAMBDA s : s.category = category /\ s.text # <<>>)
    IN  str_strip(str_join(<<"\n", "\n">>, [k \in 1..Len(kept) |-> kept[k].text]))

\* lines 38-53
summarise_figures(figures) ==
    IF figures = <<>> THEN <<"No figures detected.">>
    ELSE str_join(<<"\n">>,
        [i \in 1..Len(figures) |->
            LET cap == str_strip(figures[i].caption)
                path == str_strip(figures[i].path)
                head == <<"Figure ">> \o int_text(i) \o <<": ">>
            IN  IF cap # <<>> /\ path # <<>>
                THEN head \o cap \o <<" (file: ">> \o path \o <<")">>
                ELSE IF cap # <<>> THEN head \o cap
                ELSE IF path # <<>> THEN head \o path
                ELSE head \o <<"(no description)">>])

\* lines 56-63
TablePreviewLen == 200
summarise_tables(tables) ==
    IF tables = <<>> THEN <<"No tables detected.">>
    ELSE str_join(<<"\n">>,
        [i \in 1..Len(tables) |->
            LET cut == str_take(str_strip(tables[i]), TablePreviewLen)
                preview == [p \in 1..Len(cut) |-> IF cut[p] = "\n" THEN " " ELSE cut[p]]
            IN  <<"Table ">> \o int_text(i) \o <<": ">> \o preview])

\* lines 69-73: the list lines of _summarise_equations
EquationCap == 30
EquationPreviewLen == 120
\* the slice of line 70 one entry short
equation_cap_short(n) == IF n < EquationCap - 1 THEN n ELSE EquationCap - 1
\* len(equations[:30])
equation_cap(n) == IF n < EquationCap THEN n ELSE EquationCap
equation_lines(equations) ==
    [i \in 1..equation_cap(Len(equations)) |->
        <<"Eq. ">> \o int_text(i) \o <<": ">>
            \o str_take(str_strip(equations[i]), EquationPreviewLen)]
    \o (IF Len(equations) > EquationCap
        THEN <<<<"... and ">> \o int_text(Len(equations) - EquationCap)
                 \o <<" more equations.">>>>
        ELSE <<>>)

\* lines 66-74
summarise_equations(equations) ==
    IF equations = <<>> THEN <<"No equations detected.">>
    ELSE str_join(<<"\n">>, equation_lines(equations))

\* the clamp of line 97 left out
heading_depth_unclamped(level) == level
\* line 97: min(max(level, 2), 6)
heading_depth(level) ==
    LET low == IF level > 2 THEN level ELSE 2
    IN  IF low < 6 THEN low ELSE 6

\* lines 79-117: the list lines of _build_export_markdown
export_lines(parsed, stem) ==
    LET section_lines(sec) ==
            <<[q \in 1..heading_depth(sec.level) |-> "#"] \o <<" ">> \o sec.heading \o <<"\n">>>>
            \o (IF sec.text # <<>> THEN <<sec.text \o <<"\n">>>> ELSE <<>>)
        table_lines(i) ==
            <<<<"### Table ">> \o int_text(i) \o <<"\n">>, parsed.tables[i] \o <<"\n">>>>
    IN  <<<<"# ">> \o or_else(parsed.title, stem) \o <<"\n">>>>
        \o (IF parsed.authors # <<>>
            THEN <<<<"**Authors:** ">> \o parsed.authors \o <<"\n">>>> ELSE <<>>)
        \o (IF parsed.abstract # <<>>
            THEN <<<<"## Abstract", "\n">>, parsed.abstract \o <<"\n">>>> ELSE <<>>)
        \o Flatten([k \in 1..Len(parsed.sections) |-> section_lines(parsed.sections[k])])
        \o (IF parsed.figures # <<>>
            THEN <<<<"## Figures", "\n">>, summarise_figures(parsed.figures) \o <<"\n">>>>
            ELSE <<>>)
        \o (IF parsed.tables # <<>>
            THEN <<<<"## Tables", "\n">>>>
                 \o Flatten([i \in 1..Len(parsed.tables) |-> table_lines(i)])
            ELSE <<>>)
        \o (IF parsed.equations # <<>>
            THEN <<<<"## Equations", "\n">>, summarise_equations(parsed.equations) \o <<"\n">>>>
            ELSE <<>>)

\* lines 77-119
build_export_markdown(parsed, stem) == str_join(<<"\n">>, export_lines(parsed, stem))

NotStated == <<"Not explicitly stated.">>

\* the fallbacks of lines 197-199 left out
paper_info_answer_as_parsed(parsed, stem) ==
    <<"Title: ">> \o parsed.title \o <<"\n", "Authors: ">> \o parsed.authors
        \o <<"\n", "Abstract: ">> \o parsed.abstract
\* lines 197-212
paper_info_answer(parsed, stem) ==
    LET title == or_else(parsed.title, stem)
        authors == or_else(parsed.authors, <<"Unknown">>)
        abstract == or_else(parsed.abstract, <<"Not provided.">>)
        paper_info_text == collect_category_text(parsed.sections, "paper_info")
    IN  <<"Title: ">> \o title \o <<"\n", "Authors: ">> \o authors
            \o <<"\n", "Abstract: ">> \o abstract
            \o (IF paper_info_text # <<>>
                THEN <<"\n", "\n", "Additional content:", "\n">> \o paper_info_text
                ELSE <<>>)

\* lines 203-263
RagKeys ==
    {"paper_info", "motivation", "solution", "results", "contributions",
     "figures", "tables", "equations"}
rag_results(parsed, stem) ==
    [key \in RagKeys |->
        CASE key = "paper_info" ->
                <<make_result("What is this document about?",
                              paper_info_answer(parsed, stem))>>
          [] key = "motivation" ->
                <<make_result("What is the problem/motivation?",
                              or_else(collect_category_text(parsed.sections, key), NotStated))>>
          [] key = "solution" ->
                <<make_result("What is the proposed solution/method?",
                              or_else(collect_category_text(parsed.sections, key), NotStated))>>
          [] key = "results" ->
                <<make_result("What are the results/findings?",
                              or_else(collect_category_text(parsed.sections, key), NotStated))>>
          [] key = "contributions" ->
                <<make_result("What are the contributions/conclusions?",
                              or_else(collect_category_text(parsed.sections, key), NotStated))>>
          [] key = "figures" ->
                <<make_result("What figures are in the document?",
                              summarise_figures(parsed.figures))>>
          [] key = "tables" ->
                <<make_result("What tables are in the document?",
                              summarise_tables(parsed.tables))>>
          [] key = "equations" ->
                <<make_result("What equations are in the document?",
                              summarise_equations(parsed.equations))>>]

ExportPath == "fast/rag_output/export.md"
CheckpointPath == "fast/checkpoint_rag.json"

\* lines 268-274; config is {}, so content_type is the default of line 148
rag_data(file, parsed) ==
    [rag_results |-> rag_results(parsed, file.stem),
     markdown_paths |-> <<ExportPath>>,
     input_path |-> file.stem \o file.suffix,
     content_type |-> "paper",
     mode |-> "fast"]

\* the suffix compared as given
suffix_as_given(suffix) == suffix
\* line 147: fp.suffix.lower()
suffix_lower(suffix) == str_lower(suffix)

MdSuffixes == {<<".", "m", "d">>, <<".", "m", "a", "r", "k", "d", "o", "w", "n">>}
TexSuffixes == {<<".", "t", "e", "x">>}
ZipSuffixes == {<<".", "z", "i", "p">>}

\* Inputs.  The dict the parser returns for the file (for an archive: for its
\* main .tex file) has a title, authors and an abstract that are each empty or
\* not, at most MaxSections sections of SectionChoices, and figures, tables
\* and equations that are each empty or not; ParsedDocs keeps the dicts that
\* one of the two parsers can return.
MaxSections == 2
SectionChoices ==
    {[heading |-> <<"Notes">>, level |-> 1, category |-> "paper_info", text |-> <<"P">>],
     [heading |-> <<"Misc">>, level |-> 2, category |-> "paper_info", text |-> <<>>],
     [heading |-> <<"Abstract">>, level |-> 2, category |-> "abstract", text |-> <<"B">>],
     [heading |-> <<"Extended Abstract">>, level |-> 2, category |-> "abstract", text |-> <<"O">>],
     [heading |-> <<"Introduction">>, level |-> 2, category |-> "motivation", text |-> <<"M">>],
     [heading |-> <<"Background">>, level |-> 3, category |-> "motivation", text |-> <<"N">>],
     [heading |-> <<"Problem">>, level |-> 2, category |-> "motivation", text |-> <<>>],
     [heading |-> <<"Method">>, level |-> 6, category |-> "solution", text |-> <<"S">>],
     [heading |-> <<"Experiments">>, level |-> 2, category |-> "results", text |-> <<"R">>],
     [heading |-> <<"Conclusion">>, level |-> 4, category |-> "contributions", text |-> <<"C">>]}
HeaderChoices ==
    {[title |-> t, authors |-> a, abstract |-> b] :
        t \in {<<>>, <<"T">>}, a \in {<<>>, <<"A">>}, b \in {<<>>, <<"B">>}}
MediaChoices ==
    LET figs == <<[caption |-> <<"c">>, path |-> <<"p">>], [caption |-> <<>>, path |-> <<>>]>>
        tbls == <<<<"|", "a", "|", "\n", "|", "b", "|">>>>
        eqs == <<<<"x">>, <<"y">>>>
    IN  {[figures |-> <<>>, tables |-> <<>>, equations |-> <<>>],
         [figures |-> figs, tables |-> <<>>, equations |-> <<>>],
         [figures |-> <<>>, tables |-> tbls, equations |-> <<>>],
         [figures |-> <<>>, tables |-> <<>>, equations |-> eqs],
         [figures |-> figs, tables |-> tbls, equations |-> eqs]}
\* md_parser.py 190-192 and tex_parser.py 295-296: the body of the first
\* section of category abstract that has one, "" if there is none
first_abstract_body(sections) ==
    LET bodies == SelectSeq(sections, LAMBDA s : s.category = "abstract" /\ s.text # <<>>)
    IN  IF bodies = <<>> THEN <<>> ELSE bodies[1].text
\* parse_markdown takes the abstract from the sections only (lines 84, 190-192)
MdProducible(doc) == doc.abstract = first_abstract_body(doc.sections)
\* parse_latex has the levels 1 to 3 (line 261) and takes the abstract from the
\* abstract environment, else from the sections (lines 248-250, 295-296)
TexProducible(doc) ==
    /\ \A k \in 1..Len(doc.sections) : doc.sections[k].level <= 3
    /\ first_abstract_body(doc.sections) # <<>> => doc.abstract # <<>>
ParsedDocs ==
    LET docs ==
            {[title |-> h.title, authors |-> h.authors, abstract |-> h.abstract,
              sections |-> secs,
              figures |-> m.figures, tables |-> m.tables, equations |-> m.equations] :
                h \in HeaderChoices, secs \in SeqsUpTo(SectionChoices, MaxSections),
                m \in MediaChoices}
    IN  {doc \in docs : MdProducible(doc) \/ TexProducible(doc)}
FileStem == <<"paper">>
GoodArchive ==
    [corrupt |-> FALSE,
     members |-> <<[path |-> <<"m", ".tex">>, content |-> <<DocumentClass, BeginDocument>>]>>]
Suffixes ==
    MdSuffixes \cup TexSuffixes \cup ZipSuffixes
        \cup {<<".", "M", "D">>, <<".", "T", "e", "x">>, <<".", "Z", "I", "P">>,
              <<".", "p", "d", "f">>, <<".", "t", "x", "t">>, <<>>}

\* Every dict of ParsedDocs is tried on a file with the suffix .md if
\* parse_markdown can return it, with the suffix .tex otherwise; the files with
\* the other suffixes, the archives among them, give SampleDoc.
SampleDoc ==
    CHOOSE doc \in ParsedDocs :
        /\ doc.title = <<>> /\ doc.authors # <<>> /\ doc.abstract # <<>>
        /\ Len(doc.sections) = MaxSections /\ doc.sections[1].category = "paper_info"
        /\ doc.sections[1].text # <<>> /\ doc.equations # <<>> /\ doc.figures = <<>>
        /\ MdProducible(doc) /\ TexProducible(doc)
InputFile(suffix, archive, doc) ==
    [stem |-> FileStem, suffix |-> suffix, archive |-> archive, doc |-> doc]

InitIngest ==
    /\ pc = "start"
    /\ \/ \E doc \in ParsedDocs :
             in_file = InputFile(IF MdProducible(doc) THEN <<".", "m", "d">>
                                 ELSE <<".", "t", "e", "x">>, GoodArchive, doc)
       \/ \E suffix \in Suffixes :
             /\ suffix_lower(suffix) \notin ZipSuffixes
             /\ in_file = InputFile(suffix, GoodArchive, SampleDoc)
       \/ \E suffix \in Suffixes, archive \in {GoodArchive, CorruptArchive} \cup NoTexArchives :
             /\ suffix_lower(suffix) \in ZipSuffixes
             /\ in_file = InputFile(suffix, archive, SampleDoc)
    /\ in_parsed = None
    /\ in_written = <<>>
    /\ in_out = None
    /\ OthersIdle({"ingest"})

\* lines 157-165: a Markdown or LaTeX file is parsed
IngestParseFile ==
    /\ pc = "start"
    /\ suffix_lower(in_file.suffix) \in MdSuffixes \cup TexSuffixes
    /\ in_parsed' = in_file.doc
    /\ pc' = "parsed"
    /\ UNCHANGED <<in_file, in_written, in_out, not_ingest>>

\* lines 167-174: the main file of an archive is found and parsed
IngestParseArchive ==
    /\ pc = "start"
    /\ suffix_lower(in_file.suffix) \in ZipSuffixes
    /\ extract_and_find_main(in_file.archive)[1] = "return"
    /\ in_parsed' = in_file.doc
    /\ pc' = "parsed"
    /\ UNCHANGED <<in_file, in_written, in_out, not_ingest>>

\* lines 171 and 42-50 of zip_handler.py: extract_and_find_main raises
IngestArchiveError ==
    /\ pc = "start"
    /\ suffix_lower(in_file.suffix) \in ZipSuffixes
    /\ extract_and_find_main(in_file.archive)[1] = "raise"
    /\ in_out' = extract_and_find_main(in_file.archive)
    /\ pc' = "raised"
    /\ UNCHANGED <<in_file, in_parsed, in_written, not_ingest>>

\* lines 176-180: any other extension
IngestReject ==
    /\ pc = "start"
    /\ suffix_lower(in_file.suffix) \notin MdSuffixes \cup TexSuffixes \cup ZipSuffixes
    /\ in_out' = <<"raise", "ValueError">>
    /\ pc' = "raised"
    /\ UNCHANGED <<in_file, in_parsed, in_written, not_ingest>>

\* lines 185-191: export.md is written
IngestWriteExport ==
    /\ pc = "parsed"
    /\ in_written' = Append(in_written,
            [path |-> ExportPath,
             content |-> build_export_markdown(in_parsed, in_file.stem)])
    /\ pc' = "exported"
    /\ UNCHANGED <<in_file, in_parsed, in_out, not_ingest>>

\* lines 197-284: rag_data is built, written to checkpoint_rag.json and returned
IngestWriteCheckpoint ==
    /\ pc = "exported"
    /\ in_written' = Append(in_written,
            [path |-> CheckpointPath, content |-> rag_data(in_file, in_parsed)])
    /\ in_out' = <<"return", rag_data(in_file, in_parsed)>>
    /\ pc' = "done"
    /\ UNCHANGED <<in_file, in_parsed, not_ingest>>

NextIngest ==
    \/ IngestParseFile \/ IngestParseArchive \/ IngestArchiveError \/ IngestReject
    \/ IngestWriteExport \/ IngestWriteCheckpoint
SpecIngest == InitIngest /\ [][NextIngest]_vars

\* ---- what the claims say about ingest_document ----
SupportedSuffixes ==
    {<<".", "m", "d">>, <<".", "m", "a", "r", "k", "d", "o", "w", "n">>,
     <<".", "t", "e", "x">>, <<".", "z", "i", "p">>}

\* the hard errors: an extension that is none of the four whatever its case,
\* a corrupt archive, an archive without .tex file
HardError(file) ==
    \/ str_lower(file.suffix) \notin SupportedSuffixes
    \/ /\ str_lower(file.suffix) = <<".", "z", "i", "p">>
       /\ \/ file.archive.corrupt
          \/ \A k \in 1..Len(file.archive.members) :
                ~EndsWith(file.archive.members[k].path, TexSuffix)

WrittenPaths == [k \in 1..Len(in_written) |-> in_written[k].path]

\* C15: a call on a hard error raises and has written neither export.md nor
\* checkpoint_rag.json, no other call raises, and a successful call writes
\* export.md first and checkpoint_rag.json after it.
C15_HardErrorsWriteNothing ==
    /\ pc = "raised" => HardError(in_file) /\ in_out[1] = "raise" /\ in_written = <<>>
    /\ pc \in {"parsed", "exported", "done"} => ~HardError(in_file)
    /\ pc \in {"start", "parsed"} => WrittenPaths = <<>>
    /\ pc = "exported" => WrittenPaths = <<ExportPath>>
    /\ pc = "done" => WrittenPaths = <<ExportPath, CheckpointPath>> /\ in_out[1] = "return"

C15_Witness ==
    /\ pc = "raised"
    /\ in_file.suffix = <<".", "Z", "I", "P">>
    /\ ~in_file.archive.corrupt
    /\ in_out = <<"raise", "ValueError">>

\* C16: rag_results has exactly one record for each of the six categories and
\* one each for figures, tables and equations, and no other key.
C16_OneRecordPerCategory ==
    pc = "done" =>
        LET results == in_out[2].rag_results
        IN  /\ DOMAIN results = Categories \cup {"figures", "tables", "equations"}
            /\ \A key \in DOMAIN results : Len(results[key]) = 1

\* the non-blank bodies of the sections of a category, in document order
RECURSIVE BodiesOf(_, _)
BodiesOf(sections, category) ==
    IF sections = <<>> THEN <<>>
    ELSE (IF Head(sections).category = category /\ str_strip(Head(sections).text) # <<>>
          THEN <<Head(sections).text>> ELSE <<>>)
         \o BodiesOf(Tail(sections), category)

\* C17: the answers for motivation, solution, results and contributions are
\* the bodies of the sections of the category in document order, joined by a
\* blank line, and the placeholder exactly when no such section has a
\* non-blank body.
C17_CategoryAnswers ==
    pc = "done" =>
        \A category \in {"motivation", "solution", "results", "contributions"} :
            LET answer == in_out[2].rag_results[category][1].answer
                bodies == BodiesOf(in_parsed.sections, category)
            IN  /\ (answer = NotStated) <=> (bodies = <<>>)
                /\ bodies # <<>> => answer = str_join(<<"\n", "\n">>, bodies)

C17_Witness ==
    /\ pc = "done"
    /\ Len(BodiesOf(in_parsed.sections, "motivation")) = 2
    /\ in_parsed.sections[1].text # in_parsed.sections[2].text
    /\ in_out[2].rag_results["solution"][1].answer = NotStated

\* C18: the paper_info answer is a Title line, an Authors line and an Abstract
\* line, with the file stem, "Unknown" and "Not provided." for an empty field,
\* whether or not a section is classified paper_info; the bodies of the
\* paper_info sections follow only when there is a non-empty one.
C18_PaperInfoAnswer ==
    pc = "done" =>
        LET answer == in_out[2].rag_results["paper_info"][1].answer
            three == <<"Title: ">>
                        \o (IF in_parsed.title = <<>> THEN in_file.stem ELSE in_parsed.title)
                        \o <<"\n", "Authors: ">>
                        \o (IF in_parsed.authors = <<>> THEN <<"Unknown">> ELSE in_parsed.authors)
                        \o <<"\n", "Abstract: ">>
                        \o (IF in_parsed.abstract = <<>> THEN <<"Not provided.">>
                            ELSE in_parsed.abstract)
            bodies == BodiesOf(in_parsed.sections, "paper_info")
        IN  /\ Len(answer) >= Len(three) /\ SubSeq(answer, 1, Len(three)) = three
            /\ bodies = <<>> => answer = three
            /\ bodies # <<>> =>
                  answer = three \o <<"\n", "\n", "Additional content:", "\n">>
                               \o str_join(<<"\n", "\n">>, bodies)

C18_Witness ==
    /\ pc = "done"
    /\ in_parsed.title = <<>> /\ in_parsed.authors = <<>> /\ in_parsed.abstract = <<>>
    /\ \A k \in 1..Len(in_parsed.sections) : in_parsed.sections[k].category # "paper_info"
    /\ Len(in_parsed.sections) = 2

\* the blocks of the export document
SectionBlock(sec) ==
    LET depth == IF sec.level < 2 THEN 2 ELSE IF sec.level > 6 THEN 6 ELSE sec.level
    IN  <<[q \in 1..depth |-> "#"] \o <<" ">> \o sec.heading \o <<"\n">>>>
        \o (IF sec.text = <<>> THEN <<>> ELSE <<sec.text \o <<"\n">>>>)
OnlyIf(condition, block) == IF condition THEN block ELSE <<>>

\* C19: the export document is, in this order, the title heading, the authors
\* line iff there are authors, the Abstract block iff there is an abstract,
\* every section in its order under a heading of depth min(max(level, 2), 6),
\* and the Figures, Tables and Equations blocks, each iff its list is non-empty.
C19_ExportOrder ==
    pc \in {"exported", "done"} =>
        LET doc == in_parsed
            tables == Flatten([i \in 1..Len(doc.tables) |->
                          <<<<"### Table ", ToString(i), "\n">>, doc.tables[i] \o <<"\n">>>>])
        IN  in_written[1].content = str_join(<<"\n">>,
                <<<<"# ">> \o (IF doc.title = <<>> THEN in_file.stem ELSE doc.title) \o <<"\n">>>>
                \o OnlyIf(doc.authors # <<>>, <<<<"**Authors:** ">> \o doc.authors \o <<"\n">>>>)
                \o OnlyIf(doc.abstract # <<>>,
                          <<<<"## Abstract", "\n">>, doc.abstract \o <<"\n">>>>)
                \o Flatten([k \in 1..Len(doc.sections) |-> SectionBlock(doc.sections[k])])
                \o OnlyIf(doc.figures # <<>>,
                          <<<<"## Figures", "\n">>, summarise_figures(doc.figures) \o <<"\n">>>>)
                \o OnlyIf(doc.tables # <<>>, <<<<"## Tables", "\n">>>> \o tables)
                \o OnlyIf(doc.equations # <<>>,
                          <<<<"## Equations", "\n">>,
                            summarise_equations(doc.equations) \o <<"\n">>>>))

C19_Witness ==
    /\ pc = "done"
    /\ in_parsed.authors = <<>> /\ in_parsed.abstract # <<>>
    /\ Len(in_parsed.sections) = 2
    /\ in_parsed.sections[1].level = 1 /\ in_parsed.sections[2].category = "abstract"
    /\ in_parsed.tables # <<>> /\ in_parsed.figures = <<>>

(***************************************************************************)
(* _summarise_equations on its own (ingestor.py 66-74)                     *)
(***************************************************************************)
\* Inputs: lists of 0..MaxEquations equations, stripped as the parsers return
\* them.  The equations are short and differ from their neighbours, every
\* fourth one has two lines; one at most, at any position, has a length one
\* less than, equal to or one more than the preview length.
MaxEquations == 32
ShortEquation(i) ==
    IF i % 4 = 0 THEN <<"a", "\n", "b">> ELSE <<"e">> \o [q \in 1..(i % 4) |-> "+"]
LongEquation(len) == [q \in 1..len |-> IF q = len THEN "z" ELSE "y"]
EquationList(n, long_at, len) ==
    [i \in 1..n |-> IF i = long_at THEN LongEquation(len) ELSE ShortEquation(i)]

InitSummary ==
    /\ pc = "start"
    /\ \E n \in 0..MaxEquations :
          \/ eq_list = EquationList(n, 0, 0)
          \/ \E long_at \in 1..n,
                len \in (EquationPreviewLen - 1)..(EquationPreviewLen + 1) :
                eq_list = EquationList(n, long_at, len)
    /\ eq_out = None
    /\ OthersIdle({"summary"})

CallSummariseEquations ==
    /\ pc = "start"
    /\ eq_out' = summarise_equations(eq_list)
    /\ pc' = "done"
    /\ UNCHANGED <<eq_list, not_summary>>

SpecSummary == InitSummary /\ [][CallSummariseEquations]_vars

\* ---- what the claim says about _summarise_equations ----
\* C20: for n > 0 equations the summary has min(n, 30) entry lines, numbered
\* from 1 in list order, each with at most the first 120 characters of its
\* equation, then one line stating n - 30 iff n > 30; for n = 0 it is the
\* placeholder "No equations detected.".
C20_EquationSummary ==
    pc = "done" =>
        LET n == Len(eq_list)
            shown == IF n < 30 THEN n ELSE 30
            entries ==
                [i \in 1..shown |->
                    <<"Eq. ", ToString(i), ": ">>
                        \o (IF Len(eq_list[i]) > 120 THEN SubSeq(eq_list[i], 1, 120)
                            ELSE eq_list[i])]
            remainder ==
                IF n > 30 THEN <<<<"... and ", ToString(n - 30), " more equations.">>>>
                ELSE <<>>
        IN  IF n = 0 THEN eq_out = <<"No equations detected.">>
            ELSE eq_out = str_join(<<"\n">>, entries \o remainder)

C20_Witness ==
    /\ pc = "done"
    /\ Len(eq_list) = 32
    /\ Len(eq_list[30]) = 121
    /\ eq_out[Len(eq_out)] = " more equations."

(***************************************************************************)
(* The order of the equations of parse_latex (tex_parser.py 348-374)       *)
(***************************************************************************)
\* the first position of the text at which the string eq occurs
FirstOccurrence(text, eq) ==
    CHOOSE p \in 1..Len(text) :
        /\ StartsWith(text, p, eq)
        /\ \A q \in 1..(p - 1) : ~StartsWith(text, q, eq)

\* C22: the equations of parse_latex are in order of appearance: an equation
\* whose first occurrence lies earlier in the source text precedes every
\* equation whose first occurrence lies later, whatever their kinds.
C22_EquationsInOrderOfAppearance ==
    pc = "done" =>
        LET eqs == tex_result.equations
        IN  \A i, j \in 1..Len(eqs) :
                i < j => FirstOccurrence(tex_raw, eqs[i]) <= FirstOccurrence(tex_raw, eqs[j])

\* C25: no section content is lost in the handoff: every section with a
\* non-empty body has its text contained in the answer of at least one record
\* of rag_results, or its text is the document abstract.
C25_NoSectionContentLost ==
    pc = "done" =>
        LET results == in_out[2].rag_results
        IN  \A k \in 1..Len(in_parsed.sections) :
                LET text == in_parsed.sections[k].text
                IN  text # <<>> =>
                        \/ \E key \in DOMAIN results : str_contains(results[key][1].answer, text)
                        \/ text = in_parsed.abstract

(***************************************************************************)
(* OAuthManager (oauth.py 51-222).  The manager is the module-level        *)
(* singleton of line 226; its coroutines run on one event loop and give   *)
(* up control only at the await of the HTTP request (lines 117 and 146),  *)
(* so a call is one step up to its request and one step from the response *)
(* on.  Python None is None; a string value is a tuple, so that it        *)
(* compares with None.  An access token is the tuple of the parts that    *)
(* token.split(".") gives.  Time is in seconds.                           *)
(***************************************************************************)
\* line 166: data.get("expires_in", 3600) - 60
DefaultExpiresIn == 3600
ExpiryMargin == 60

\* lines 177-181: what base64.urlsafe_b64decode and json.loads make of the
\* second part of a token, for the parts that decode to a JSON object; the
\* claims are payload["https://api.openai.com/auth"]["chatgpt_account_id"] and
\* payload["email"], None where payload.get finds no key
PayloadClaims ==
    [payload_alice |-> [account_id |-> <<"acct_a">>, email |-> <<"alice@example.com">>],
     payload_bob |-> [account_id |-> <<"acct_b">>, email |-> <<"bob@example.com">>],
     payload_no_claims |-> [account_id |-> None, email |-> None]]

\* dict.get(key, default)
dict_get(data, key, default) == IF key \in DOMAIN data THEN data[key] ELSE default

\* lines 172-183: _decode_jwt, as the fields of the manager after the call
decode_jwt(mgr, token) ==
    IF Len(token) < 2 THEN mgr
    ELSE IF token[2] \notin DOMAIN PayloadClaims THEN mgr
    ELSE [mgr EXCEPT !.account_id = PayloadClaims[token[2]].account_id,
                     !.email = PayloadClaims[token[2]].email]

\* lines 163-168: _store_tokens at time now, as the fields after the call
store_tokens(mgr, data, now) ==
    LET stored ==
            [mgr EXCEPT
                !.access_token = data.access_token,
                !.refresh_token = dict_get(data, "refresh_token", mgr.refresh_token),
                !.expires_at = now + dict_get(data, "expires_in", DefaultExpiresIn) - ExpiryMargin]
    IN  decode_jwt(stored, stored.access_token)

\* lines 187-188
is_authenticated(mgr) == mgr.access_token # None

\* lines 54-61 and 217-221: the fields after __init__ and after logout
ClearedFields ==
    [state |-> None, verifier |-> None, access_token |-> None,
     refresh_token |-> None, expires_at |-> 0, account_id |-> None, email |-> None]

\* Inputs.  The token endpoint answers a request with status 200 and a JSON
\* object, with another status, or not at all (the request raises).
MaxInFlight == 2
MaxClock == 120
TickSeconds == 60
AccessTokens ==
    {<<"hdr", "payload_alice", "sig">>, <<"hdr", "payload_bob", "sig">>,
     <<"hdr", "payload_no_claims", "sig">>,
     <<"opaque">>, <<"hdr", "garbage", "sig">>}
TokenData ==
    UNION {{[access_token |-> t],
            [access_token |-> t, refresh_token |-> <<"r1">>],
            [access_token |-> t, expires_in |-> 60],
            [access_token |-> t, refresh_token |-> <<"r1">>, expires_in |-> 60]} :
                t \in AccessTokens}
FlowStates == {<<"s1">>, <<"s2">>}
FlowVerifiers == {<<"v1">>}

InitOAuth ==
    /\ pc = "serving"
    /\ oa_mgr = ClearedFields
    /\ oa_now = 0
    /\ oa_calls = <<>>
    /\ oa_ret = <<>>
    /\ oa_cleared = FALSE
    /\ OthersIdle({"oauth"})

RemoveAt(seq, i) == SubSeq(seq, 1, i - 1) \o SubSeq(seq, i + 1, Len(seq))

\* lines 65-103: start_flow
OAuthStartFlow ==
    /\ \E state \in FlowStates, verifier \in FlowVerifiers :
           oa_mgr' = [oa_mgr EXCEPT !.state = state, !.verifier = verifier]
    /\ UNCHANGED <<pc, oa_now, oa_calls, oa_ret, oa_cleared, not_oauth>>

\* lines 112-126: exchange_code up to the await of the request
OAuthExchangeSend ==
    /\ Len(oa_calls) < MaxInFlight
    /\ oa_calls' = Append(oa_calls, [op |-> "exchange_code", stale |-> FALSE])
    /\ UNCHANGED <<pc, oa_mgr, oa_now, oa_ret, oa_cleared, not_oauth>>

\* lines 127-134: the response has status 200, its tokens are stored
OAuthExchangeStore ==
    \E i \in 1..Len(oa_calls), data \in TokenData :
        /\ oa_calls[i].op = "exchange_code"
        /\ oa_mgr' = store_tokens(oa_mgr, data, oa_now)
        /\ oa_cleared' = (oa_cleared /\ oa_calls[i].stale)
        /\ oa_calls' = RemoveAt(oa_calls, i)
        /\ UNCHANGED <<pc, oa_now, oa_ret, not_oauth>>

\* lines 127-131 and 135-137: another status, or the request raises
OAuthExchangeFail ==
    \E i \in 1..Len(oa_calls) :
        /\ oa_calls[i].op = "exchange_code"
        /\ oa_calls' = RemoveAt(oa_calls, i)
        /\ UNCHANGED <<pc, oa_mgr, oa_now, oa_ret, oa_cleared, not_oauth>>

\* time.time() > self._expires_at
Expired == oa_now > oa_mgr.expires_at

\* lines 190-197 and 142-143: get_token returns without a request
OAuthGetToken ==
    /\ \/ ~is_authenticated(oa_mgr)
       \/ ~Expired
       \/ oa_mgr.refresh_token = None
    /\ oa_ret' = <<[value |-> IF is_authenticated(oa_mgr) /\ ~Expired
                              THEN oa_mgr.access_token ELSE None,
                    cleared |-> oa_cleared]>>
    /\ UNCHANGED <<pc, oa_mgr, oa_now, oa_calls, oa_cleared, not_oauth>>

\* lines 192-195 and 141-153: get_token up to the await of the refresh request
OAuthRefreshSend ==
    /\ is_authenticated(oa_mgr)
    /\ Expired
    /\ oa_mgr.refresh_token # None
    /\ Len(oa_calls) < MaxInFlight
    /\ oa_calls' = Append(oa_calls, [op |-> "get_token", stale |-> FALSE])
    /\ UNCHANGED <<pc, oa_mgr, oa_now, oa_ret, oa_cleared, not_oauth>>

\* lines 154-158 and 197: the response has status 200, its tokens are stored
\* and get_token returns self._access_token
OAuthRefreshStore ==
    \E i \in 1..Len(oa_calls), data \in TokenData :
        /\ oa_calls[i].op = "get_token"
        /\ oa_mgr' = store_tokens(oa_mgr, data, oa_now)
        /\ oa_ret' = <<[value |-> oa_mgr'.access_token, cleared |-> oa_cleared]>>
        /\ oa_calls' = RemoveAt(oa_calls, i)
        /\ UNCHANGED <<pc, oa_now, oa_cleared, not_oauth>>

\* lines 154-156, 159-161 and 195-196: another status, or the request raises
OAuthRefreshFail ==
    \E i \in 1..Len(oa_calls) :
        /\ oa_calls[i].op = "get_token"
        /\ oa_ret' = <<[value |-> None, cleared |-> oa_cleared]>>
        /\ oa_calls' = RemoveAt(oa_calls, i)
        /\ UNCHANGED <<pc, oa_mgr, oa_now, oa_cleared, not_oauth>>

\* lines 217-222: logout; the calls awaiting a response from now on started
\* before a logout
OAuthLogout ==
    /\ oa_mgr' = ClearedFields
    /\ oa_cleared' = TRUE
    /\ oa_calls' = [i \in 1..Len(oa_calls) |-> [oa_calls[i] EXCEPT !.stale = TRUE]]
    /\ UNCHANGED <<pc, oa_now, oa_ret, not_oauth>>

\* time passes
OAuthTick ==
    /\ oa_now + TickSeconds <= MaxClock
    /\ oa_now' = oa_now + TickSeconds
    /\ UNCHANGED <<pc, oa_mgr, oa_calls, oa_ret, oa_cleared, not_oauth>>

NextOAuth ==
    \/ OAuthStartFlow \/ OAuthExchangeSend \/ OAuthExchangeStore \/ OAuthExchangeFail
    \/ OAuthGetToken \/ OAuthRefreshSend \/ OAuthRefreshStore \/ OAuthRefreshFail
    \/ OAuthLogout \/ OAuthTick
SpecOAuth == InitOAuth /\ [][NextOAuth]_vars

\* ---- what the claims say about the OAuth manager ----
\* a token whose payload _decode_jwt cannot decode
Undecodable(token) == Len(token) < 2 \/ token[2] \notin DOMAIN PayloadClaims

\* C21: when the access token stored has a malformed or undecodable payload,
\* the email and the account id of the session are None, not the values decoded
\* from a token stored before.
C21_UndecodableTokenClearsIdentity ==
    is_authenticated(oa_mgr) /\ Undecodable(oa_mgr.access_token) =>
        oa_mgr.email = None /\ oa_mgr.account_id = None

\* C26: once logout has run, is_authenticated() is false and get_token()
\* returns None until an exchange_code call started after that logout succeeds;
\* a call that was awaiting its response when logout ran does not
\* re-authenticate the session.
C26_LogoutHoldsUntilNewExchange ==
    /\ oa_cleared => ~is_authenticated(oa_mgr)
    /\ oa_ret # <<>> /\ oa_ret[1].cleared => oa_ret[1].value = None

(***************************************************************************)
(* parse_latex, the sections (tex_parser.py 256-296).  The include-resolved *)
(* text raw is a sequence of characters and the patterns of lines 257 and  *)
(* 277 are matched character by character as re matches them.             *)
(***************************************************************************)
BeginOf(name) == <<"\\", "b", "e", "g", "i", "n", "{">> \o name \o <<"}">>
EndOf(name) == <<"\\", "e", "n", "d", "{">> \o name \o <<"}">>

\* line 261: _level_map, in the order of the alternation of line 257
SectionCommands ==
    <<[name |-> <<"s", "e", "c", "t", "i", "o", "n">>, level |-> 1],
      [name |-> <<"s", "u", "b", "s", "e", "c", "t", "i", "o", "n">>, level |-> 2],
      [name |-> <<"s", "u", "b", "s", "u", "b", "s", "e", "c", "t", "i", "o", "n">>, level |-> 3]>>

\* line 257: a match of \\(section|subsection|subsubsection)\*?\s*\{([^}]*)\}
\* with re.IGNORECASE at position p of text, low being text lower-cased
sec_match(text, low, p) ==
    LET hits == {k \in 1..Len(SectionCommands) :
                    StartsWith(low, p + 1, SectionCommands[k].name)}
    IN  IF text[p] # "\\" \/ hits = {} THEN [found |-> FALSE]
        ELSE LET k == CHOOSE h \in hits : TRUE
                 q == p + 1 + Len(SectionCommands[k].name)
                 star == IF q <= Len(text) /\ text[q] = "*" THEN q + 1 ELSE q
                 open == RunEnd(text, star, Whitespace)
                 close == FindFirst(text, open + 1, {"}"})
             IN  IF open <= Len(text) /\ text[open] = "{" /\ close <= Len(text)
                 THEN [found |-> TRUE, level |-> SectionCommands[k].level,
                       heading |-> SubSeq(text, open + 1, close - 1),
                       start |-> p, end |-> close + 1]
                 ELSE [found |-> FALSE]

\* line 259: list(_sec_re.finditer(raw)), the matches from position i on
RECURSIVE sec_matches(_, _, _)
sec_matches(text, low, i) ==
    LET p == FindFirst(text, i, {"\\"})
        m == sec_match(text, low, p)
    IN  IF p > Len(text) THEN <<>>
        ELSE IF m.found THEN <<m>> \o sec_matches(text, low, m.end)
        ELSE sec_matches(text, low, p + 1)

\* line 277: the environment names of the alternation
StripEnvNames ==
    {<<"f", "i", "g", "u", "r", "e">>,
     <<"t", "a", "b", "l", "e">>,
     <<"t", "a", "b", "u", "l", "a", "r">>,
     <<"e", "q", "u", "a", "t", "i", "o", "n">>,
     <<"a", "l", "i", "g", "n">>,
     <<"a", "l", "i", "g", "n", "*">>,
     <<"e", "q", "n", "a", "r", "r", "a", "y">>,
     <<"g", "a", "t", "h", "e", "r">>,
     <<"g", "a", "t", "h", "e", "r", "*">>}

\* the marker of markers that starts at position p, <<>> if none does
MarkerAt(text, p, markers) ==
    IF \E m \in markers : StartsWith(text, p, m)
    THEN CHOOSE m \in markers : StartsWith(text, p, m)
    ELSE <<>>

\* first position >= from at which a marker of markers starts (Len(text) + 1
\* if none)
FindMarker(text, from, markers) ==
    LET hits == {p \in from..Len(text) : \E m \in markers : StartsWith(text, p, m)}
    IN  IF hits = {} THEN Len(text) + 1 ELSE CHOOSE p \in hits : \A q \in hits : p <= q

\* lines 276-281: re.sub of \\begin\{(?:...)\}.*?\\end\{(?:...)\} by "" with
\* re.DOTALL, from position i on
RECURSIVE strip_envs(_, _)
strip_envs(text, i) ==
    LET begins == {BeginOf(n) : n \in StripEnvNames}
        ends == {EndOf(n) : n \in StripEnvNames}
        b == FindMarker(text, i, begins)
        e == FindMarker(text, b + Len(MarkerAt(text, b, begins)), ends)
    IN  IF b > Len(text) \/ e > Len(text) THEN SubSeq(text, i, Len(text))
        ELSE SubSeq(text, i, b - 1) \o strip_envs(text, e + Len(MarkerAt(text, e, ends)))

\* lines 263-293: result["sections"]
latex_sections(raw) ==
    LET ms == sec_matches(raw, str_lower(raw), 1)
    IN  [k \in 1..Len(ms) |->
            LET body_end == IF k < Len(ms) THEN ms[k + 1].start ELSE Len(raw) + 1
                body_raw == SubSeq(raw, ms[k].end, body_end - 1)
                heading == str_strip(strip_commands(ms[k].heading))
            IN  [heading |-> heading,
                 level |-> ms[k].level,
                 text |-> str_strip(strip_commands(strip_envs(body_raw, 1))),
                 category |-> classify_section_tex(heading)]]

\* Inputs: texts of at most MaxSecChunks of these pieces: two headings, prose,
\* and the environments of EnvNames and their starred variants around the
\* content Q
MaxSecChunks == 2
EnvNames ==
    {<<"f", "i", "g", "u", "r", "e">>,
     <<"t", "a", "b", "l", "e">>,
     <<"t", "a", "b", "u", "l", "a", "r">>,
     <<"e", "q", "u", "a", "t", "i", "o", "n">>,
     <<"a", "l", "i", "g", "n">>,
     <<"e", "q", "n", "a", "r", "r", "a", "y">>,
     <<"g", "a", "t", "h", "e", "r">>,
     <<"m", "u", "l", "t", "l", "i", "n", "e">>}
EnvContent == <<"Q">>
Environment(name) == BeginOf(name) \o EnvContent \o EndOf(name)
SecChunks ==
    {<<"\\", "s", "e", "c", "t", "i", "o", "n", "{", "A", "}">>,
     <<"\\", "S", "u", "b", "s", "e", "c", "t", "i", "o", "n", "*", " ", "{", "B", "}">>,
     <<"x", " ">>}
        \cup {Environment(n) : n \in EnvNames}
        \cup {Environment(n \o <<"*">>) : n \in EnvNames}
SecTexts == {Flatten(cs) : cs \in SeqsUpTo(SecChunks, MaxSecChunks)}

InitLatexSections ==
    /\ pc = "start"
    /\ tex_raw \in SecTexts
    /\ tex_result = None
    /\ OthersIdle({"latex"})

\* parse_latex on the include-resolved text: the sections of the returned dict
CallParseLatexSections ==
    /\ pc = "start"
    /\ tex_raw # None
    /\ tex_result' = [sections |-> latex_sections(tex_raw)]
    /\ pc' = "done"
    /\ UNCHANGED <<tex_raw, not_latex>>

SpecLatexSections == InitLatexSections /\ [][CallParseLatexSections]_vars

\* C23: no section's text contains content of a figure, table, tabular,
\* equation, align, eqnarray, gather or multline environment, or of the
\* starred variant of one of them, that lies in the body of the section.
C23_EnvironmentsStrippedFromSections ==
    pc = "done" =>
        \A k \in 1..Len(tex_result.sections) :
            ~str_contains(tex_result.sections[k].text, EnvContent)

(***************************************************************************)
(* parse_latex, the figures (tex_parser.py 302-327), character by          *)
(* character as for the sections.                                          *)
(***************************************************************************)
FigureName == <<"f", "i", "g", "u", "r", "e">>
IncludeGraphics == <<"\\", "i", "n", "c", "l", "u", "d", "e", "g", "r", "a", "p", "h", "i", "c", "s">>
CaptionOpen == <<"\\", "c", "a", "p", "t", "i", "o", "n", "{">>

\* lines 181-188 and 320-322: the matches of \\begin\{name\}(.*?)\\end\{name\}
\* with re.DOTALL | re.IGNORECASE from position i on, low being text
\* lower-cased; a match is [first, last] with the group 1 as content
RECURSIVE env_spans(_, _, _, _)
env_spans(text, low, name, i) ==
    LET begin == str_lower(BeginOf(name))
        end == str_lower(EndOf(name))
        b == FindMarker(low, i, {begin})
        e == FindMarker(low, b + Len(begin), {end})
    IN  IF b > Len(text) \/ e > Len(text) THEN <<>>
        ELSE <<[first |-> b, last |-> e + Len(end) - 1,
                content |-> SubSeq(text, b + Len(begin), e - 1)]>>
                \o env_spans(text, low, name, e + Len(end))

\* lines 179-189: _extract_env on a text of characters
extract_env_chars(text, name) ==
    LET spans == env_spans(text, str_lower(text), name, 1)
    IN  [k \in 1..Len(spans) |-> spans[k].content]

\* a text without the characters of the spans, from position i on
RECURSIVE cut_spans(_, _, _)
cut_spans(text, spans, i) ==
    IF spans = <<>> THEN SubSeq(text, i, Len(text))
    ELSE SubSeq(text, i, spans[1].first - 1)
            \o cut_spans(text, Tail(spans), spans[1].last + 1)
\* the bare pass run on raw itself
raw_with_figs(raw) == raw
\* lines 320-323: raw_no_figs
raw_no_figs(raw) == cut_spans(raw, env_spans(raw, str_lower(raw), FigureName, 1), 1)

\* lines 303-306: the caption of a figure environment
figure_caption(fig_env) ==
    LET p == FindMarker(fig_env, 1, {CaptionOpen})
    IN  IF p <= Len(fig_env)
        THEN strip_commands(extract_braced(fig_env, p + Len(CaptionOpen) - 2))
        ELSE <<>>

\* lines 309-311 and 324-326: a match of
\* \\includegraphics\s*(?:\[[^\]]*\])?\s*\{([^}]+)\} at position p
ig_match(text, p) ==
    LET q == RunEnd(text, p + Len(IncludeGraphics), Whitespace)
        close == FindFirst(text, q + 1, {"]"})
        options == q <= Len(text) /\ text[q] = "[" /\ close <= Len(text)
        open == IF options THEN RunEnd(text, close + 1, Whitespace) ELSE q
        brace == FindFirst(text, open + 1, {"}"})
    IN  IF /\ StartsWith(text, p, IncludeGraphics)
           /\ open <= Len(text) /\ text[open] = "{"
           /\ brace <= Len(text) /\ brace > open + 1
        THEN [found |-> TRUE, path |-> SubSeq(text, open + 1, brace - 1), end |-> brace + 1]
        ELSE [found |-> FALSE]

\* the group 1 of every match from position i on
RECURSIVE ig_paths(_, _)
ig_paths(text, i) ==
    LET p == FindMarker(text, i, {IncludeGraphics})
        m == ig_match(text, p)
    IN  IF p > Len(text) THEN <<>>
        ELSE IF m.found THEN <<m.path>> \o ig_paths(text, m.end)
        ELSE ig_paths(text, p + 1)

\* lines 302-327: result["figures"]
latex_figures(raw) ==
    LET envs == extract_env_chars(raw, FigureName)
        in_env(fig_env) ==
            LET paths == ig_paths(fig_env, 1)
            IN  [k \in 1..Len(paths) |->
                    [caption |-> str_strip(figure_caption(fig_env)),
                     path |-> str_strip(paths[k])]]
        bare == ig_paths(raw_no_figs(raw), 1)
    IN  Flatten([k \in 1..Len(envs) |-> in_env(envs[k])])
            \o [k \in 1..Len(bare) |-> [caption |-> <<>>, path |-> str_strip(bare[k])]]

\* Inputs: texts of at most MaxFigChunks of these pieces: figure environments
\* with a caption after or before one or two calls or with no caption, bare
\* calls without and with options (one of them with the path of a call inside
\* an environment), a figure* environment, and prose
MaxFigChunks == 2
FigChunks ==
    {<<"\\", "b", "e", "g", "i", "n", "{", "f", "i", "g", "u", "r", "e", "}", "\\", "i", "n", "c", "l", "u", "d", "e", "g", "r", "a", "p", "h", "i", "c", "s", "[", "w", "]", "{", "a", "}", "\\", "c", "a", "p", "t", "i", "o", "n", "{", "C", "}", "\\", "e", "n", "d", "{", "f", "i", "g", "u", "r", "e", "}">>,
     <<"\\", "b", "e", "g", "i", "n", "{", "f", "i", "g", "u", "r", "e", "}", "\\", "c", "a", "p", "t", "i", "o", "n", "{", "D", "}", "\\", "i", "n", "c", "l", "u", "d", "e", "g", "r", "a", "p", "h", "i", "c", "s", "{", "b", "}", "\\", "i", "n", "c", "l", "u", "d", "e", "g", "r", "a", "p", "h", "i", "c", "s", " ", "{", "c", "}", "\\", "e", "n", "d", "{", "f", "i", "g", "u", "r", "e", "}">>,
     <<"\\", "b", "e", "g", "i", "n", "{", "f", "i", "g", "u", "r", "e", "}", "\\", "i", "n", "c", "l", "u", "d", "e", "g", "r", "a", "p", "h", "i", "c", "s", "{", "a", "}", "\\", "e", "n", "d", "{", "f", "i", "g", "u", "r", "e", "}">>,
     <<"\\", "i", "n", "c", "l", "u", "d", "e", "g", "r", "a", "p", "h", "i", "c", "s", "{", "e", "}">>,
     <<"\\", "i", "n", "c", "l", "u", "d", "e", "g", "r", "a", "p", "h", "i", "c", "s", "[", "w", "]", " ", "{", "a", "}">>,
     <<"\\", "b", "e", "g", "i", "n", "{", "f", "i", "g", "u", "r", "e", "*", "}", "\\", "i", "n", "c", "l", "u", "d", "e", "g", "r", "a", "p", "h", "i", "c", "s", "{", "f", "}", "\\", "c", "a", "p", "t", "i", "o", "n", "{", "E", "}", "\\", "e", "n", "d", "{", "f", "i", "g", "u", "r", "e", "*", "}">>,
     <<"x", " ">>}
FigTexts == {Flatten(cs) : cs \in SeqsUpTo(FigChunks, MaxFigChunks)}

InitLatexFigures ==
    /\ pc = "start"
    /\ tex_raw \in FigTexts
    /\ tex_result = None
    /\ OthersIdle({"latex"})

\* parse_latex on the include-resolved text: the figures of the returned dict
CallParseLatexFigures ==
    /\ pc = "start"
    /\ tex_raw # None
    /\ tex_result' = [figures |-> latex_figures(tex_raw)]
    /\ pc' = "done"
    /\ UNCHANGED <<tex_raw, not_latex>>

SpecLatexFigures == InitLatexFigures /\ [][CallParseLatexFigures]_vars

\* ---- what the claim says about the figures of parse_latex ----
\* the positions of the \includegraphics calls of a text
CallsOf(text) == {p \in 1..Len(text) : StartsWith(text, p, IncludeGraphics)}

\* the position of the \begin{figure} of the figure environment that the
\* position p lies in, 0 if p lies in none
FigureAround(text, p) ==
    LET begins == {b \in 1..(p - 1) : StartsWith(text, b, BeginOf(FigureName))}
        ends == {e \in 1..Len(text) : StartsWith(text, e, EndOf(FigureName))}
        b == Max(begins)
    IN  IF begins = {} THEN 0
        ELSE IF (\E e \in ends : e > p) /\ ~(\E e \in ends : b < e /\ e < p) THEN b
        ELSE 0

\* the characters from position from up to the next closing brace
UpToBrace(text, from) == SubSeq(text, from, FindFirst(text, from, {"}"}) - 1)

\* the caption of the figure environment that begins at b, "" if it has none
CaptionOfFigure(text, b) ==
    LET end == FindMarker(text, b, {EndOf(FigureName)})
        c == FindMarker(text, b, {CaptionOpen})
    IN  IF c < end THEN UpToBrace(text, c + Len(CaptionOpen)) ELSE <<>>

\* the entry the claim gives the call at position p
EntryOfCall(text, p) ==
    LET b == FigureAround(text, p)
    IN  [caption |-> IF b = 0 THEN <<>> ELSE CaptionOfFigure(text, b),
         path |-> UpToBrace(text, FindFirst(text, p, {"{"}) + 1)]

Occurrences(seq, x) == Cardinality({k \in 1..Len(seq) : seq[k] = x})

\* C24: every \includegraphics call of the text yields exactly one Figure
\* entry: a call inside a figure environment one entry with the caption of
\* that environment, a call outside any figure environment one entry with an
\* empty caption, and no call yields two entries.
C24_OneFigurePerCall ==
    pc = "done" =>
        LET figures == tex_result.figures
            calls == CallsOf(tex_raw)
            entries == {EntryOfCall(tex_raw, p) : p \in calls}
        IN  /\ Len(figures) = Cardinality(calls)
            /\ \A k \in 1..Len(figures) : figures[k] \in entries
            /\ \A entry \in entries :
                   Occurrences(figures, entry)
                        = Cardinality({p \in calls : EntryOfCall(tex_raw, p) = entry})

\* a text with a call inside a captioned figure environment and a bare call
\* of the same image outside it
C24_Witness ==
    /\ pc = "done"
    /\ \E p, q \in CallsOf(tex_raw) :
           /\ FigureAround(tex_raw, p) # 0 /\ FigureAround(tex_raw, q) = 0
           /\ EntryOfCall(tex_raw, p).caption # <<>>
           /\ EntryOfCall(tex_raw, p).path = EntryOfCall(tex_raw, q).path
    /\ Len(tex_result.figures) = 2

====
